---- MODULE Spec2Model ----
(***************************************************************************)
(* A model of the mail-access core of kami-tsuki/jedi:                     *)
(*   - EmailConnection (services/email_connection.py): the IMAP and SMTP   *)
(*     connection ladders and the process-wide socket timeout around them; *)
(*   - EmailClient (services/email_client.py): the session fields of a     *)
(*     client and the operations that create, reuse and drop sessions;     *)
(*   - EmailClient.get_emails: the pagination and the per-message fetch.   *)
(*   - get_folders of the older EmailClient (endpoints/email_client.py),   *)
(*     which builds the folder hierarchy.                                  *)
(*                                                                         *)
(* The specifications share the module's variables:                       *)
(*   SpecLadder  the connection ladders, one statement group per step;     *)
(*   SpecRace    two threads whose calls into the ladders overlap;         *)
(*   Spec        the client's session lifecycle, one action per method;    *)
(*   SpecTest    test_connection beside the client's own sessions;         *)
(*   SpecEmails  get_emails over a mailbox listing;                        *)
(*   SpecMail    the operations that read and change messages and folders; *)
(*   SpecFolders get_folders and get_emails as a folder view is built;     *)
(*   SpecUnread  get_unread_count for one folder and for all of them;      *)
(*   SpecTree    the folder trees the two clients build from a listing;    *)
(*   SpecSend    send_email over the recipients it is given.               *)
(* Each specification leaves the variables of the others unchanged.       *)
(***************************************************************************)
EXTENDS Integers, Sequences, FiniteSets, TLC

VARIABLES
    sockTimeout,   \* socket.getdefaulttimeout(): the process-wide default
    callers,       \* the threads that call into the connection manager
    call,          \* per thread: the frame of its create_*_connection call
    imap,          \* EmailClient.imap: a session id, or None
    smtp,          \* EmailClient.smtp: a session id, or None
    sess,          \* every session created so far: id -> its record
    staleSeen,     \* ids of the IMAP sessions whose no-op probe has failed
    last,          \* what the last client operation did and returned
    page,          \* the last get_emails call: its inputs and its result
    mbox,          \* the server's mailbox: folder -> its messages, in order
    listing,       \* the server's answer to LIST: one record per line
    done,          \* the last mailbox operation: its inputs and its result
    mail           \* the message send_email is asked to send, and what it
                   \* handed to SMTP

vars == <<sockTimeout, callers, call, imap, smtp, sess, staleSeen, last, page,
          mbox, listing, done, mail>>

ladderVars == <<sockTimeout, callers, call>>
clientVars == <<imap, smtp, sess, staleSeen, last>>
mailVars == <<mbox, listing, done>>

----------------------------------------------------------------------------
(* Bounds of the model. *)

\* how many sessions one run may create
MaxSessions == 3
\* how many messages a folder's SEARCH may match
MaxMsgs == 3
\* the largest offset and the largest limit a get_emails call is given
MaxArg == 2

----------------------------------------------------------------------------
(* Values. *)

None == "None"

Threads == {"t1", "t2"}

\* socket default timeouts a process may have before a call: unset, or 10 s
OriginalTimeouts == {None, "10"}

\* EmailConnection.timeout: 30 from __init__, 60 once EmailClient has set it
ManagerTimeouts == {"30", "60"}

Servers == {"mail.example.org"}

\* the texts of the exceptions a strategy can fail with
FailureTexts == {"timed out", "authentication failed"}

Ok == "ok"

Outcomes == {Ok} \cup FailureTexts

\* ports a caller configures
ImapPorts == {993, 143}
SmtpPorts == {587, 25}

ImapPlainPort == 143
SmtpSslPort == 465
SmtpPlainPort == 25

----------------------------------------------------------------------------
(* EmailConnection: the ladders. *)

\* The strategies of create_imap_connection in the order of its try blocks.
\* tls: "direct" (IMAP4_SSL), "starttls" (IMAP4 + starttls), "none".
ImapStrategiesSwapped(port, allow_insecure) ==
    << [name |-> "starttls", port |-> ImapPlainPort, tls |-> "starttls"],
       [name |-> "ssl", port |-> port, tls |-> "direct"] >>
    \o (IF allow_insecure
          THEN << [name |-> "plain", port |-> ImapPlainPort, tls |-> "none"] >>
          ELSE << >>)

ImapStrategies(port, allow_insecure) ==
    << [name |-> "ssl", port |-> port, tls |-> "direct"],
       [name |-> "starttls", port |-> ImapPlainPort, tls |-> "starttls"] >>
    \o (IF allow_insecure
          THEN << [name |-> "plain", port |-> ImapPlainPort, tls |-> "none"] >>
          ELSE << >>)

\* The strategies of create_smtp_connection. The second one upgrades with
\* STARTTLS only when the server's EHLO answer advertises it ("if-offered").
SmtpStrategiesAlwaysPlain(port, allow_insecure) ==
    << [name |-> "ssl", port |-> SmtpSslPort, tls |-> "direct"],
       [name |-> "starttls", port |-> port, tls |-> "if-offered"],
       [name |-> "plain", port |-> SmtpPlainPort, tls |-> "none"] >>

SmtpStrategies(port, allow_insecure) ==
    << [name |-> "ssl", port |-> SmtpSslPort, tls |-> "direct"],
       [name |-> "starttls", port |-> port, tls |-> "if-offered"] >>
    \o (IF allow_insecure
          THEN << [name |-> "plain", port |-> SmtpPlainPort, tls |-> "none"] >>
          ELSE << >>)

Strategies(kind, port, allow_insecure) ==
    IF kind = "imap" THEN ImapStrategies(port, allow_insecure)
                     ELSE SmtpStrategies(port, allow_insecure)

\* The encryption of the channel a strategy logs in over.
Channel(strategy, advertised) ==
    CASE strategy.tls = "direct"     -> "tls"
      [] strategy.tls = "starttls"   -> "starttls"
      [] strategy.tls = "if-offered" -> IF advertised THEN "starttls" ELSE "plain"
      [] OTHER                       -> "plain"

\* error_msg of the ConnectionError raised once every strategy has failed,
\* as the sequence of its parts: the fixed text and the server name.
AllFailedMessage(kind, server, attempts) ==
    << IF kind = "imap" THEN "All IMAP connection methods failed to"
                        ELSE "All SMTP connection methods failed to",
       server >>

IdleFrame ==
    [pc |-> "idle", kind |-> None, server |-> None, port |-> 0,
     allow_insecure |-> FALSE, timeout |-> None, original_timeout |-> None,
     before |-> None, attempts |-> << >>, conn |-> << >>, error |-> << >>]

\* original_timeout = socket.getdefaulttimeout()
SaveTimeout(t) ==
    /\ t \in callers
    /\ call[t].pc = "idle"
    /\ \E kind \in {"imap", "smtp"}, server \in Servers,
          allow \in BOOLEAN, mt \in ManagerTimeouts :
         \E port \in (IF kind = "imap" THEN ImapPorts ELSE SmtpPorts) :
            call' = [call EXCEPT ![t] =
                       [IdleFrame EXCEPT !.pc = "saved", !.kind = kind,
                                         !.server = server, !.port = port,
                                         !.allow_insecure = allow,
                                         !.timeout = mt,
                                         !.original_timeout = sockTimeout,
                                         !.before = sockTimeout]]
    /\ UNCHANGED <<sockTimeout, callers>>

\* socket.setdefaulttimeout(self.timeout)
InstalledTimeout(t) == call[t].timeout

InstallTimeout(t) ==
    /\ t \in callers
    /\ call[t].pc = "saved"
    /\ sockTimeout' = InstalledTimeout(t)
    /\ call' = [call EXCEPT ![t].pc = "ladder"]
    /\ UNCHANGED callers

\* One try block of the ladder: connect, upgrade, log in. The attempt is
\* recorded with the default timeout in force while it runs. advertised is
\* has_extn('STARTTLS'), which only the second SMTP strategy asks for.
TryStrategy(t) ==
    /\ t \in callers
    /\ call[t].pc = "ladder"
    /\ LET f == call[t]
           strategies == Strategies(f.kind, f.port, f.allow_insecure)
           i == Len(f.attempts) + 1
       IN  /\ i <= Len(strategies)
           /\ \E outcome \in Outcomes, advertised \in BOOLEAN :
                /\ strategies[i].tls # "if-offered" => advertised
                /\ LET a == [name |-> strategies[i].name,
                             port |-> strategies[i].port,
                             advertised |-> advertised,
                             channel |-> Channel(strategies[i], advertised),
                             during |-> sockTimeout,
                             outcome |-> outcome]
                   IN  call' = [call EXCEPT
                                  ![t].attempts = Append(f.attempts, a),
                                  ![t].conn = IF outcome = Ok THEN <<a>> ELSE << >>,
                                  ![t].pc = IF outcome = Ok THEN "finally"
                                                            ELSE "ladder"]
    /\ UNCHANGED <<sockTimeout, callers>>

\* raise ConnectionError(error_msg): every strategy has been tried and failed
RaiseAllFailed(t) ==
    /\ t \in callers
    /\ call[t].pc = "ladder"
    /\ LET f == call[t]
       IN  /\ Len(f.attempts) = Len(Strategies(f.kind, f.port, f.allow_insecure))
           /\ call' = [call EXCEPT
                         ![t].error = AllFailedMessage(f.kind, f.server, f.attempts),
                         ![t].pc = "finally"]
    /\ UNCHANGED <<sockTimeout, callers>>

\* finally: socket.setdefaulttimeout(original_timeout)
RestoredTimeoutNone(t) == None

RestoredTimeout(t) == call[t].original_timeout

RestoreTimeout(t) ==
    /\ t \in callers
    /\ call[t].pc = "finally"
    /\ sockTimeout' = RestoredTimeout(t)
    /\ call' = [call EXCEPT ![t].pc = IF call[t].conn # << >> THEN "returned"
                                                             ELSE "raised"]
    /\ UNCHANGED callers

\* The caller takes the result; the thread is free to call again.
CallAgain(t) ==
    /\ t \in callers
    /\ call[t].pc \in {"returned", "raised"}
    /\ call' = [call EXCEPT ![t] = IdleFrame]
    /\ UNCHANGED <<sockTimeout, callers>>

----------------------------------------------------------------------------
(* EmailClient: the session fields and the operations on them. *)

\* self.imap = None, self.smtp = None
NoSession == 0

\* imap_port and smtp_port as EmailClient.__init__ defaults them
DefaultImapPort == 993
DefaultSmtpPort == 587

\* A whole ladder run on the outcomes the server gives each strategy: the
\* first strategy whose outcome is Ok wins, later ones are not attempted.
RECURSIVE Ladder(_, _, _, _)
Ladder(strategies, outcomes, advertised, i) ==
    IF i > Len(strategies)
      THEN [ok |-> FALSE, tried |-> i - 1, name |-> None, channel |-> None]
      ELSE IF outcomes[i] = Ok
             THEN [ok |-> TRUE, tried |-> i, name |-> strategies[i].name,
                   channel |-> Channel(strategies[i], advertised)]
             ELSE Ladder(strategies, outcomes, advertised, i + 1)

LadderInputs == [1 .. 3 -> {Ok, "timed out"}]

\* The client's fields and the sessions behind them, as one value, so that
\* a method that calls another is the composition of their effects.
Cur == [imap |-> imap, smtp |-> smtp, sess |-> sess, staleSeen |-> staleSeen]

NewSession(kind) ==
    [kind |-> kind, state |-> IF kind = "imap" THEN "AUTH" ELSE "open",
     sends |-> 0]

\* self.imap = self._connection_manager.create_imap_connection(...,
\*                 allow_insecure=True); return self.imap
CreateImap(s, outcomes) ==
    LET run == Ladder(ImapStrategies(DefaultImapPort, TRUE), outcomes, TRUE, 1)
        id == Len(s.sess) + 1
    IN  IF run.ok
          THEN [s |-> [s EXCEPT !.imap = id,
                                !.sess = Append(s.sess, NewSession("imap"))],
                ret |-> id, exc |-> None, tried |-> run.tried]
          ELSE [s |-> s, ret |-> NoSession, exc |-> "ConnectionError",
                tried |-> run.tried]

\* EmailClient.connect_imap
ConnectImapKeepStale(s, probe, outcomes) ==
    IF s.imap # NoSession /\ s.sess[s.imap].state # "LOGOUT"
      THEN IF probe = Ok
             THEN [s |-> s, ret |-> s.imap, exc |-> None, tried |-> 0]
             ELSE CreateImap([s EXCEPT !.staleSeen = @ \cup {s.imap}], outcomes)
      ELSE CreateImap(s, outcomes)

ConnectImap(s, probe, outcomes) ==
    IF s.imap # NoSession /\ s.sess[s.imap].state # "LOGOUT"
      THEN IF probe = Ok
             THEN [s |-> s, ret |-> s.imap, exc |-> None, tried |-> 0]
             ELSE CreateImap([s EXCEPT !.imap = NoSession,
                                       !.staleSeen = @ \cup {s.imap}], outcomes)
      ELSE CreateImap(s, outcomes)

\* self.smtp = self._connection_manager.create_smtp_connection(...,
\*                 allow_insecure=True); return self.smtp
CreateSmtp(s, outcomes) ==
    LET run == Ladder(SmtpStrategies(DefaultSmtpPort, TRUE), outcomes, TRUE, 1)
        id == Len(s.sess) + 1
    IN  IF run.ok
          THEN [s |-> [s EXCEPT !.smtp = id,
                                !.sess = Append(s.sess, NewSession("smtp"))],
                ret |-> id, exc |-> None, tried |-> run.tried]
          ELSE [s |-> s, ret |-> NoSession, exc |-> "ConnectionError",
                tried |-> run.tried]

\* if self.smtp: try: self.smtp.quit() except: pass; self.smtp = None.
\* The channel is closed whether the QUIT exchange succeeds or raises
\* (smtplib closes the socket on every error path of the command).
Quit(s) ==
    IF s.smtp = NoSession THEN s
    ELSE [s EXCEPT !.sess[s.smtp].state = "closed", !.smtp = NoSession]

\* EmailClient.connect_smtp
ConnectSmtpReusing(s, outcomes) ==
    IF s.smtp # NoSession
      THEN [s |-> s, ret |-> s.smtp, exc |-> None, tried |-> 0]
      ELSE CreateSmtp(s, outcomes)

ConnectSmtp(s, outcomes) ==
    CreateSmtp(Quit(s), outcomes)

\* EmailClient.disconnect. imap.logout() sets the session's state to LOGOUT
\* before it sends the command, so also when the command raises.
DisconnectUnlessRaised(s, logout) ==
    LET a == IF s.imap = NoSession THEN s
             ELSE IF logout = Ok
                    THEN [s EXCEPT !.sess[s.imap].state = "LOGOUT", !.imap = NoSession]
                    ELSE [s EXCEPT !.sess[s.imap].state = "LOGOUT"]
    IN  Quit(a)

Disconnect(s, logout) ==
    LET a == IF s.imap = NoSession THEN s
             ELSE [s EXCEPT !.sess[s.imap].state = "LOGOUT", !.imap = NoSession]
    IN  Quit(a)

Install(s) ==
    /\ imap' = s.imap
    /\ smtp' = s.smtp
    /\ sess' = s.sess
    /\ staleSeen' = s.staleSeen

NoLast ==
    [op |-> None, ret |-> NoSession, exc |-> None, result |-> None,
     imapBefore |-> NoSession, smtpBefore |-> NoSession, created |-> 0,
     probe |-> None, tried |-> 0, raised |-> {},
     usedSmtp |-> NoSession, submitted |-> FALSE, appended |-> FALSE,
     test |-> << >>]

Before == [NoLast EXCEPT !.imapBefore = imap, !.smtpBefore = smtp]

\* The no-op probe is sent only to a session the client holds.
Probes == IF imap = NoSession THEN {Ok} ELSE {Ok, "timed out"}

\* EmailClient.connect_imap, called by the client's user
connect_imap ==
    \E probe \in Probes, outcomes \in LadderInputs :
       \E r \in {ConnectImap(Cur, probe, outcomes)} :
           /\ Len(r.s.sess) <= MaxSessions
           /\ Install(r.s)
           /\ last' = [Before EXCEPT !.op = "connect_imap", !.ret = r.ret,
                                     !.exc = r.exc, !.tried = r.tried,
                                     !.probe = IF imap = NoSession THEN None
                                                                   ELSE probe,
                                     !.created = Len(r.s.sess) - Len(sess)]
           /\ UNCHANGED <<ladderVars, page, mailVars, mail>>

\* EmailClient.connect_smtp, called by the client's user
connect_smtp ==
    \E outcomes \in LadderInputs :
       \E r \in {ConnectSmtp(Cur, outcomes)} :
           /\ Len(r.s.sess) <= MaxSessions
           /\ Install(r.s)
           /\ last' = [Before EXCEPT !.op = "connect_smtp", !.ret = r.ret,
                                     !.exc = r.exc,
                                     !.created = Len(r.s.sess) - Len(sess)]
           /\ UNCHANGED <<ladderVars, page, mailVars, mail>>

\* EmailClient.disconnect; logout and quit each succeed or raise
disconnect ==
    \E logout \in {Ok, "timed out"}, quit \in {Ok, "timed out"} :
       /\ Install(Disconnect(Cur, logout))
       /\ last' = [Before EXCEPT !.op = "disconnect",
                     !.raised = {c \in {"logout", "quit"} :
                                   \/ c = "logout" /\ imap # NoSession /\ logout # Ok
                                   \/ c = "quit" /\ smtp # NoSession /\ quit # Ok}]
       /\ UNCHANGED <<ladderVars, page, mailVars, mail>>

\* EmailConnection.test_connection, which EmailClient.test_connection hands
\* the client's servers, ports and credentials: run the IMAP ladder with
\* allow_insecure on, log the session out and only then set imap_success;
\* whatever came of that, do the same with the SMTP ladder and quit. An
\* exception of the ladder, of logout or of quit leaves the flag False.
\* imaplib's logout shuts the socket down after the LOGOUT command returned,
\* not when it raised; smtplib's quit closes the socket either way.
TestConnection(imapOutcomes, logout, smtpOutcomes, quit) ==
    LET i == Ladder(ImapStrategies(DefaultImapPort, TRUE), imapOutcomes, TRUE, 1)
        m == Ladder(SmtpStrategies(DefaultSmtpPort, TRUE), smtpOutcomes, TRUE, 1)
    IN  [imap_success |-> i.ok /\ logout = Ok,
         smtp_success |-> m.ok /\ quit = Ok,
         imapTried |-> i.tried, smtpTried |-> m.tried,
         imapSession |-> IF ~i.ok THEN None
                         ELSE IF logout = Ok THEN "closed" ELSE "open",
         smtpSession |-> IF ~m.ok THEN None ELSE "closed",
         exc |-> None]

\* EmailClient.test_connection; the sessions it opens are its own, the
\* client's imap and smtp fields are not touched. logout and quit are sent
\* only to a session the ladder produced.
test_connection ==
    \E imapOutcomes \in LadderInputs, smtpOutcomes \in LadderInputs :
     \E logout \in (IF \E k \in 1 .. 3 : imapOutcomes[k] = Ok
                      THEN {Ok, "timed out"} ELSE {Ok}),
        quit \in (IF \E k \in 1 .. 3 : smtpOutcomes[k] = Ok
                    THEN {Ok, "timed out"} ELSE {Ok}) :
       /\ last' = [Before EXCEPT !.op = "test_connection",
                     !.test = <<TestConnection(imapOutcomes, logout,
                                               smtpOutcomes, quit)>>]
       /\ UNCHANGED <<imap, smtp, sess, staleSeen>>
       /\ UNCHANGED <<ladderVars, page, mailVars, mail>>

\* A variant of send_email whose result is that of the Sent copy.
SendEmailNeedingCopy(s, smtpOutcomes, submit, probe, imapOutcomes, copy) ==
    LET c == ConnectSmtp(s, smtpOutcomes)
    IN  IF c.exc # None
          THEN [s |-> c.s, result |-> FALSE, usedSmtp |-> NoSession,
                submitted |-> FALSE, appended |-> FALSE, copy |-> None]
          ELSE IF submit # Ok
                 THEN [s |-> c.s, result |-> FALSE, usedSmtp |-> c.ret,
                       submitted |-> FALSE, appended |-> FALSE, copy |-> None]
                 ELSE LET sent == [c.s EXCEPT !.sess[c.ret].sends = @ + 1]
                          i == ConnectImap(sent, probe, imapOutcomes)
                      IN  [s |-> i.s,
                           result |-> i.exc = None /\ copy = "appended",
                           usedSmtp |-> c.ret, submitted |-> TRUE,
                           appended |-> i.exc = None /\ copy = "appended",
                           copy |-> IF i.exc # None THEN "no session" ELSE copy]

\* EmailClient.send_email from "smtp = self.connect_smtp()" on: the
\* submission, then the best-effort copy to the Sent folder. copy is how the
\* listing and the APPEND go once an IMAP session is there: "appended", or
\* the step that raises or finds no Sent folder.
SendEmail(s, smtpOutcomes, submit, probe, imapOutcomes, copy) ==
    LET c == ConnectSmtp(s, smtpOutcomes)
    IN  IF c.exc # None
          THEN [s |-> c.s, result |-> FALSE, usedSmtp |-> NoSession,
                submitted |-> FALSE, appended |-> FALSE, copy |-> None]
          ELSE IF submit # Ok
                 THEN [s |-> c.s, result |-> FALSE, usedSmtp |-> c.ret,
                       submitted |-> FALSE, appended |-> FALSE, copy |-> None]
                 ELSE LET sent == [c.s EXCEPT !.sess[c.ret].sends = @ + 1]
                          i == ConnectImap(sent, probe, imapOutcomes)
                      IN  [s |-> i.s, result |-> TRUE, usedSmtp |-> c.ret,
                           submitted |-> TRUE,
                           appended |-> i.exc = None /\ copy = "appended",
                           copy |-> IF i.exc # None THEN "no session" ELSE copy]

SentCopies == {"appended", "list failed", "no Sent folder", "append failed"}

\* A recipient argument of send_email (Union[str, List[str]], default
\* None): a string s, a list v of strings, or None.
StrArg(s) == [type |-> "str", s |-> s, v |-> << >>]
ListArg(v) == [type |-> "list", s |-> "", v |-> v]
NoneArg == [type |-> "none", s |-> "", v |-> << >>]

\* Python's truth value of such an argument: None, "" and [] are false.
Truthy(arg) ==
    \/ arg.type = "str" /\ arg.s # ""
    \/ arg.type = "list" /\ arg.v # << >>

\* ', '.join(list): the header text, as its addresses and separators.
RECURSIVE Join(_)
Join(list) ==
    IF Len(list) = 0 THEN << >>
    ELSE IF Len(list) = 1 THEN list
    ELSE <<Head(list), ", ">> \o Join(Tail(list))

\* The text of the header an argument is written into.
HeaderText(arg) == IF arg.type = "list" THEN Join(arg.v) ELSE <<arg.s>>

\* A variant that also writes a Bcc header.
HeadersWithBcc(to, cc, bcc) ==
    <<[name |-> "From", text |-> <<"me">>], [name |-> "To", text |-> HeaderText(to)]>>
    \o (IF Truthy(cc) THEN <<[name |-> "Cc", text |-> HeaderText(cc)]>> ELSE << >>)
    \o (IF Truthy(bcc) THEN <<[name |-> "Bcc", text |-> HeaderText(bcc)]>> ELSE << >>)
    \o <<[name |-> "Subject", text |-> <<"subject">>],
         [name |-> "Date", text |-> <<"date">>]>>

\* The headers send_email sets, in the order it sets them.
Headers(to, cc, bcc) ==
    <<[name |-> "From", text |-> <<"me">>], [name |-> "To", text |-> HeaderText(to)]>>
    \o (IF Truthy(cc) THEN <<[name |-> "Cc", text |-> HeaderText(cc)]>> ELSE << >>)
    \o <<[name |-> "Subject", text |-> <<"subject">>],
         [name |-> "Date", text |-> <<"date">>]>>

\* bcc after "if isinstance(bcc, str): bcc = [bcc] if bcc else []".
BccList(bcc) ==
    IF bcc.type = "str"
      THEN ListArg(IF bcc.s # "" THEN <<bcc.s>> ELSE << >>)
      ELSE bcc

\* all_recipients, the to_addrs handed to smtp.send_message.
AllRecipients(to, cc, bcc) ==
    (IF to.type = "list" THEN to.v ELSE <<to.s>>)
    \o (IF Truthy(cc) THEN (IF cc.type = "list" THEN cc.v ELSE <<cc.s>>)
                      ELSE << >>)
    \o (IF Truthy(BccList(bcc)) THEN BccList(bcc).v ELSE << >>)

\* The message send_email is called with; nothing handed to SMTP yet.
Request(to, cc, bcc) ==
    [to |-> to, cc |-> cc, bcc |-> bcc, handed |-> FALSE,
     headers |-> << >>, envelope |-> << >>, copy |-> None]

NoMail == Request(ListArg(<<"a">>), NoneArg, NoneArg)

send_email ==
    \E smtpOutcomes \in LadderInputs, submit \in {Ok, "recipients refused"},
       probe \in Probes, imapOutcomes \in LadderInputs, copy \in SentCopies :
       \E r \in {SendEmail(Cur, smtpOutcomes, submit, probe, imapOutcomes, copy)} :
           /\ Len(r.s.sess) <= MaxSessions
           /\ Install(r.s)
           /\ last' = [Before EXCEPT !.op = "send_email", !.result = r.result,
                                     !.usedSmtp = r.usedSmtp,
                                     !.submitted = r.submitted,
                                     !.appended = r.appended,
                                     !.created = Len(r.s.sess) - Len(sess)]
           /\ mail' = [mail EXCEPT
                         !.handed = r.usedSmtp # NoSession,
                         !.headers = Headers(mail.to, mail.cc, mail.bcc),
                         !.envelope = IF r.usedSmtp # NoSession
                                        THEN AllRecipients(mail.to, mail.cc, mail.bcc)
                                        ELSE << >>,
                         !.copy = r.copy]
           /\ UNCHANGED <<ladderVars, page, mailVars>>

----------------------------------------------------------------------------
(* EmailClient.get_emails. *)

\* seq[start:stop] of Python for a list: negative indices count from the
\* end, both are clamped to the list, an empty range gives the empty list.
PyIndex(k, n) ==
    LET j == IF k < 0 THEN k + n ELSE k
    IN  IF j < 0 THEN 0 ELSE IF j > n THEN n ELSE j

PySlice(seq, start, stop) ==
    LET lo == PyIndex(start, Len(seq))
        hi == PyIndex(stop, Len(seq))
    IN  IF lo < hi THEN SubSeq(seq, lo + 1, hi) ELSE << >>

\* seq[::-1]
Reversed(seq) == [k \in 1 .. Len(seq) |-> seq[Len(seq) - k + 1]]

Min(a, b) == IF a < b THEN a ELSE b

\* email_ids[start:end][::-1] with start = offset,
\* end = min(offset + limit, len(email_ids))
IdsToFetchUnreversed(email_ids, limit, offset) ==
    PySlice(email_ids, offset, Min(offset + limit, Len(email_ids)))

IdsToFetch(email_ids, limit, offset) ==
    Reversed(PySlice(email_ids, offset, Min(offset + limit, Len(email_ids))))

\* The fetch loop: a message whose FETCH answers non-OK, or whose fetch or
\* parse raises, is skipped (continue); the others are appended in turn.
RECURSIVE FetchLoopBreaking(_, _, _, _)
FetchLoopBreaking(ids, fetch, i, emails) ==
    IF i > Len(ids) THEN emails
    ELSE IF fetch[ids[i]] = "OK"
           THEN FetchLoopBreaking(ids, fetch, i + 1, Append(emails, ids[i]))
           ELSE emails

RECURSIVE FetchLoop(_, _, _, _)
FetchLoop(ids, fetch, i, emails) ==
    IF i > Len(ids) THEN emails
    ELSE IF fetch[ids[i]] = "OK"
           THEN FetchLoop(ids, fetch, i + 1, Append(emails, ids[i]))
           ELSE FetchLoop(ids, fetch, i + 1, emails)

\* What one call returns or raises once it has its session: select, search,
\* the page, the fetches.
GetEmails(select, search, email_ids, limit, offset, fetch) ==
    IF select # "OK"
      THEN [exc |-> "Failed to select folder", emails |-> << >>, total |-> 0]
      ELSE IF search # "OK"
             THEN [exc |-> "Search failed", emails |-> << >>, total |-> 0]
             ELSE [exc |-> None,
                   emails |-> FetchLoop(IdsToFetch(email_ids, limit, offset),
                                        fetch, 1, << >>),
                   total |-> Len(email_ids)]

\* The ascending id lists a SEARCH can answer with: the ids of the matching
\* messages among the 1 .. MaxMsgs of the folder.
RECURSIVE Ascending(_, _)
Ascending(S, k) ==
    IF k = 0 THEN << >>
    ELSE IF k \in S THEN Append(Ascending(S, k - 1), k)
                    ELSE Ascending(S, k - 1)

MatchSets == {Ascending(S, MaxMsgs) : S \in SUBSET (1 .. MaxMsgs)}

\* how the FETCH and the parse of one message go
FetchOutcomes == {"OK", "NO", "raises"}

NoPage ==
    [called |-> FALSE, exc |-> None, select |-> None, search |-> None,
     email_ids |-> << >>, limit |-> 0, offset |-> 0,
     fetch |-> << >>, emails |-> << >>, total |-> 0,
     folder |-> None, toks |-> << >>, since |-> None]

\* select and search are sent in turn; search only after select answered OK
Answers == {<<"NO", "OK">>, <<"OK", "NO">>, <<"OK", "OK">>}

\* The call page describes: its folder matches page.email_ids, each message
\* m of it fetches as page.fetch[m], and the caller passes page.limit and
\* page.offset.
get_emails ==
    \E probe \in Probes, outcomes \in LadderInputs, answer \in Answers :
       \E c \in {ConnectImap(Cur, probe, outcomes)} :
        \E r \in {GetEmails(answer[1], answer[2], page.email_ids, page.limit,
                            page.offset, page.fetch)} :
           /\ Len(c.s.sess) <= MaxSessions
           /\ Install(IF c.exc # None THEN c.s
                      ELSE [c.s EXCEPT !.sess[c.ret].state =
                               IF answer[1] = "OK" THEN "SELECTED" ELSE "AUTH"])
           /\ page' = IF c.exc # None
                        THEN [page EXCEPT !.called = TRUE, !.exc = c.exc,
                                          !.select = None, !.search = None,
                                          !.emails = << >>, !.total = 0]
                        ELSE [page EXCEPT !.called = TRUE, !.exc = r.exc,
                                          !.select = answer[1],
                                          !.search = answer[2],
                                          !.emails = r.emails,
                                          !.total = r.total]
           /\ UNCHANGED <<ladderVars, last, mailVars, mail>>

----------------------------------------------------------------------------
(* The mailbox on the server, and the operations on messages and folders. *)

\* How the server answers one command: with OK, with NO (imaplib returns
\* the status and does not raise), or so that imaplib raises.
Statuses == {"OK", "NO", "raises"}

Message(tok, flags) == [tok |-> tok, flags |-> flags]

\* One line of a LIST answer: (attributes) "delimiter" name, the name
\* quoted or not.
\* One line with its hierarchy delimiter: "." , "/" or "%" in quotes, or
\* NIL (None) for a name outside every hierarchy.
LineDelim(attrs, delim, name, quoted) ==
    [attrs |-> attrs, delim |-> delim, name |-> name, quoted |-> quoted]

Line(attrs, name, quoted) == LineDelim(attrs, ".", name, quoted)

\* The words a folder name of the model contains.
Words(name) == IF name \in {"Trash", "Sent"} THEN {name} ELSE {}

\* "'\\Trash' in decoded or 'Trash' in decoded": the word is in the line,
\* as an attribute or inside the name.
Mentions(line, word) == word \in line.attrs \/ word \in Words(line.name)

\* re.search(r'"([^"]+)"$', decoded) matches: the line ends in a quoted name
FolderMatch(line) == line.quoted /\ line.name # ""

\* The loop over folders_raw: the name of the first line that mentions the
\* word and ends in a quoted name, or None.
RECURSIVE FindFolder(_, _, _)
FindFolder(lines, word, i) ==
    IF i > Len(lines) THEN None
    ELSE IF Mentions(lines[i], word) /\ FolderMatch(lines[i])
           THEN lines[i].name
           ELSE FindFolder(lines, word, i + 1)

\* What imap.list() hands back as folders_raw: the lines on OK, the text of
\* the server's answer on NO.
FoldersRaw(list, lines) ==
    IF list = "OK" THEN lines ELSE <<LineDelim({}, None, "", FALSE)>>

\* The server's side of COPY, STORE and EXPUNGE on the selected folder.
SrvCopy(mb, folder, id, target) ==
    [mb EXCEPT ![target] = Append(@, mb[folder][id])]

SrvStore(mb, folder, id, sign, flag) ==
    [mb EXCEPT ![folder][id].flags =
        IF sign = "+" THEN @ \cup {flag} ELSE @ \ {flag}]

SrvExpunge(mb, folder) ==
    [mb EXCEPT ![folder] = SelectSeq(@, LAMBDA m : "Deleted" \notin m.flags)]

\* A command as it went to the server, with how the server answered it.
Cmd(cmd, status) == <<cmd, status>>

\* A variant of _set_flag without its try/except.
SetFlagRaising(mb, connected, folder, email_id, sign, flag, select, store) ==
    IF ~connected
      THEN [mb |-> mb, result |-> None, exc |-> "ConnectionError",
            log |-> << >>, selected |-> FALSE]
    ELSE IF select = "raises"
      THEN [mb |-> mb, result |-> None, exc |-> "select",
            log |-> <<Cmd("SELECT", select)>>, selected |-> FALSE]
    ELSE IF select = "NO"
      THEN [mb |-> mb, result |-> None, exc |-> "illegal in state AUTH",
            log |-> <<Cmd("SELECT", select)>>, selected |-> FALSE]
    ELSE IF store = "raises"
      THEN [mb |-> mb, result |-> None, exc |-> "store",
            log |-> <<Cmd("SELECT", select), Cmd("STORE", store)>>,
            selected |-> TRUE]
    ELSE [mb |-> IF store = "OK" THEN SrvStore(mb, folder, email_id, sign, flag)
                 ELSE mb,
          result |-> TRUE, exc |-> None,
          log |-> <<Cmd("SELECT", select), Cmd("STORE", store)>>,
          selected |-> TRUE]

\* _set_flag (sign "+") and _remove_flag (sign "-"): connect, select the
\* folder, store the flag; True unless a statement raised.  A select that
\* answered NO leaves the session unselected, and imaplib refuses STORE.
SetFlag(mb, connected, folder, email_id, sign, flag, select, store) ==
    IF ~connected
      THEN [mb |-> mb, result |-> FALSE, exc |-> None,
            log |-> << >>, selected |-> FALSE]
    ELSE IF select # "OK"
      THEN [mb |-> mb, result |-> FALSE, exc |-> None,
            log |-> <<Cmd("SELECT", select)>>, selected |-> FALSE]
    ELSE IF store = "raises"
      THEN [mb |-> mb, result |-> FALSE, exc |-> None,
            log |-> <<Cmd("SELECT", select), Cmd("STORE", store)>>,
            selected |-> TRUE]
    ELSE [mb |-> IF store = "OK" THEN SrvStore(mb, folder, email_id, sign, flag)
                 ELSE mb,
          result |-> TRUE, exc |-> None,
          log |-> <<Cmd("SELECT", select), Cmd("STORE", store)>>,
          selected |-> TRUE]

\* "imap.store(email_id, '+FLAGS', '\\Deleted'); imap.expunge(); return
\* True", as move_email and delete_email both end: neither status is read.
StoreAndExpunge(mb, folder, email_id, store, expunge, log) ==
    IF store = "raises"
      THEN [mb |-> mb, result |-> FALSE, exc |-> None,
            log |-> Append(log, Cmd("STORE", store)), selected |-> TRUE]
    ELSE LET stored == IF store = "OK"
                         THEN SrvStore(mb, folder, email_id, "+", "Deleted")
                         ELSE mb
             log1 == Append(log, Cmd("STORE", store))
         IN  IF expunge = "raises"
               THEN [mb |-> stored, result |-> FALSE, exc |-> None,
                     log |-> Append(log1, Cmd("EXPUNGE", expunge)),
                     selected |-> TRUE]
               ELSE [mb |-> IF expunge = "OK" THEN SrvExpunge(stored, folder)
                            ELSE stored,
                     result |-> TRUE, exc |-> None,
                     log |-> Append(log1, Cmd("EXPUNGE", expunge)),
                     selected |-> TRUE]

\* A variant of move_email that does not read the status of COPY.
MoveEmailUnchecked(mb, connected, source_folder, target_folder, email_id, select, copy, store, expunge) ==
    IF ~connected
      THEN [mb |-> mb, result |-> FALSE, exc |-> None,
            log |-> << >>, selected |-> FALSE]
    ELSE IF select # "OK"
      THEN [mb |-> mb, result |-> FALSE, exc |-> None,
            log |-> <<Cmd("SELECT", select)>>, selected |-> FALSE]
    ELSE IF copy = "raises"
      THEN [mb |-> mb, result |-> FALSE, exc |-> None,
            log |-> <<Cmd("SELECT", select), Cmd("COPY", copy)>>,
            selected |-> TRUE]
    ELSE StoreAndExpunge(IF copy = "OK"
                           THEN SrvCopy(mb, source_folder, email_id, target_folder)
                           ELSE mb,
                         source_folder, email_id, store, expunge,
                         <<Cmd("SELECT", select), Cmd("COPY", copy)>>)

\* move_email: connect, select the source (status not read), copy to the
\* target and raise unless it answered OK, then store \Deleted and expunge.
MoveEmail(mb, connected, source_folder, target_folder, email_id, select, copy, store, expunge) ==
    IF ~connected
      THEN [mb |-> mb, result |-> FALSE, exc |-> None,
            log |-> << >>, selected |-> FALSE]
    ELSE IF select # "OK"
      THEN [mb |-> mb, result |-> FALSE, exc |-> None,
            log |-> <<Cmd("SELECT", select)>>, selected |-> FALSE]
    ELSE IF copy # "OK"
      THEN [mb |-> mb, result |-> FALSE, exc |-> None,
            log |-> <<Cmd("SELECT", select), Cmd("COPY", copy)>>,
            selected |-> TRUE]
    ELSE StoreAndExpunge(SrvCopy(mb, source_folder, email_id, target_folder),
                         source_folder, email_id, store, expunge,
                         <<Cmd("SELECT", select), Cmd("COPY", copy)>>)

\* A variant of delete_email that copies to the Trash folder whenever one
\* is found, also when it is the current folder.
DeleteEmailAlwaysCopying(mb, lines, connected, folder, email_id, list, select, copy, store, expunge) ==
    IF ~connected
      THEN [mb |-> mb, result |-> FALSE, exc |-> None,
            log |-> << >>, selected |-> FALSE]
    ELSE IF list = "raises" \/ (list = "OK" /\ lines = << >>)
      THEN [mb |-> mb, result |-> FALSE, exc |-> None,
            log |-> <<Cmd("LIST", list)>>, selected |-> FALSE]
    ELSE LET trash_folder == FindFolder(FoldersRaw(list, lines), "Trash", 1)
             log1 == <<Cmd("LIST", list), Cmd("SELECT", select)>>
         IN  IF select # "OK"
               THEN [mb |-> mb, result |-> FALSE, exc |-> None,
                     log |-> log1, selected |-> FALSE]
             ELSE IF trash_folder # None
               THEN IF copy = "raises"
                      THEN [mb |-> mb, result |-> FALSE, exc |-> None,
                            log |-> Append(log1, Cmd("COPY", copy)),
                            selected |-> TRUE]
                      ELSE StoreAndExpunge(
                             IF copy = "OK"
                               THEN SrvCopy(mb, folder, email_id, trash_folder)
                               ELSE mb,
                             folder, email_id, store, expunge,
                             Append(log1, Cmd("COPY", copy)))
             ELSE StoreAndExpunge(mb, folder, email_id, store, expunge, log1)

\* delete_email: connect, list the folders (status not read) and look for
\* a Trash folder, select the folder (status not read); with a Trash folder
\* that is not the folder itself copy there (status not read), then store
\* \Deleted and expunge; True unless a statement raised.  An OK listing
\* without lines makes folders_raw [None], whose decode raises.
DeleteEmail(mb, lines, connected, folder, email_id, list, select, copy, store, expunge) ==
    IF ~connected
      THEN [mb |-> mb, result |-> FALSE, exc |-> None,
            log |-> << >>, selected |-> FALSE]
    ELSE IF list = "raises" \/ (list = "OK" /\ lines = << >>)
      THEN [mb |-> mb, result |-> FALSE, exc |-> None,
            log |-> <<Cmd("LIST", list)>>, selected |-> FALSE]
    ELSE LET trash_folder == FindFolder(FoldersRaw(list, lines), "Trash", 1)
             log1 == <<Cmd("LIST", list), Cmd("SELECT", select)>>
         IN  IF select # "OK"
               THEN [mb |-> mb, result |-> FALSE, exc |-> None,
                     log |-> log1, selected |-> FALSE]
             ELSE IF trash_folder # None /\ folder # trash_folder
               THEN IF copy = "raises"
                      THEN [mb |-> mb, result |-> FALSE, exc |-> None,
                            log |-> Append(log1, Cmd("COPY", copy)),
                            selected |-> TRUE]
                      ELSE StoreAndExpunge(
                             IF copy = "OK"
                               THEN SrvCopy(mb, folder, email_id, trash_folder)
                               ELSE mb,
                             folder, email_id, store, expunge,
                             Append(log1, Cmd("COPY", copy)))
             ELSE StoreAndExpunge(mb, folder, email_id, store, expunge, log1)

\* A variant of get_email that returns the flag as it was parsed.
GetEmailParsedRead(mb, connected, folder, email_id, select, fetch, flagsParsed, mark) ==
    IF ~connected
      THEN [mb |-> mb, exc |-> "ConnectionError", read |-> None,
            log |-> << >>, selected |-> FALSE]
    ELSE IF select # "OK"
      THEN [mb |-> mb, exc |-> "Failed to select folder", read |-> None,
            log |-> <<Cmd("SELECT", select)>>, selected |-> FALSE]
    ELSE IF fetch # "OK"
      THEN [mb |-> mb, exc |-> "Failed to fetch email", read |-> None,
            log |-> <<Cmd("SELECT", select), Cmd("FETCH", fetch)>>,
            selected |-> TRUE]
    ELSE LET flags == IF flagsParsed THEN mb[folder][email_id].flags ELSE {}
             is_read == "Seen" \in flags
             log1 == <<Cmd("SELECT", select), Cmd("FETCH", fetch)>>
         IN  IF ~is_read
               THEN LET m == SetFlag(mb, mark.connected, folder, email_id,
                                     "+", "Seen", mark.select, mark.store)
                    IN  [mb |-> m.mb, exc |-> None, read |-> is_read,
                         log |-> log1 \o m.log, selected |-> m.selected]
               ELSE [mb |-> mb, exc |-> None, read |-> is_read,
                     log |-> log1, selected |-> TRUE]

\* get_email: connect, select the folder read-only, fetch the message and
\* its flags, each raising unless it answered OK; parse; when the parsed
\* message is unread call mark_as_read, whose result is not read, and set
\* read to True.  The flags are parsed from the second item of the FETCH
\* answer, which holds them only when the server sends them after the body.
GetEmail(mb, connected, folder, email_id, select, fetch, flagsParsed, mark) ==
    IF ~connected
      THEN [mb |-> mb, exc |-> "ConnectionError", read |-> None,
            log |-> << >>, selected |-> FALSE]
    ELSE IF select # "OK"
      THEN [mb |-> mb, exc |-> "Failed to select folder", read |-> None,
            log |-> <<Cmd("SELECT", select)>>, selected |-> FALSE]
    ELSE IF fetch # "OK"
      THEN [mb |-> mb, exc |-> "Failed to fetch email", read |-> None,
            log |-> <<Cmd("SELECT", select), Cmd("FETCH", fetch)>>,
            selected |-> TRUE]
    ELSE LET flags == IF flagsParsed THEN mb[folder][email_id].flags ELSE {}
             is_read == "Seen" \in flags
             log1 == <<Cmd("SELECT", select), Cmd("FETCH", fetch)>>
         IN  IF ~is_read
               THEN LET m == SetFlag(mb, mark.connected, folder, email_id,
                                     "+", "Seen", mark.select, mark.store)
                    IN  [mb |-> m.mb, exc |-> None, read |-> TRUE,
                         log |-> log1 \o m.log, selected |-> m.selected]
               ELSE [mb |-> mb, exc |-> None, read |-> is_read,
                     log |-> log1, selected |-> TRUE]

\* The server's side of CREATE, DELETE and RENAME.
SrvCreate(mb, name) ==
    [f \in DOMAIN mb \cup {name} |-> IF f \in DOMAIN mb THEN mb[f] ELSE << >>]

SrvDelete(mb, name) == [f \in DOMAIN mb \ {name} |-> mb[f]]

SrvRename(mb, old_name, new_name) ==
    [f \in (DOMAIN mb \ {old_name}) \cup {new_name} |->
        IF f = new_name THEN mb[old_name] ELSE mb[f]]

\* The LIST answer after the same commands.
ListCreate(lines, name) == Append(lines, Line({"HasNoChildren"}, name, TRUE))

ListDelete(lines, name) == SelectSeq(lines, LAMBDA l : l.name # name)

ListRename(lines, old_name, new_name) ==
    [i \in 1 .. Len(lines) |->
        IF lines[i].name = old_name THEN [lines[i] EXCEPT !.name = new_name]
                                    ELSE lines[i]]

\* create_folder, delete_folder, rename_folder: connect and send the one
\* command; True unless a statement raised.
CreateFolder(mb, lines, connected, folder_name, create) ==
    IF ~connected
      THEN [mb |-> mb, lines |-> lines, result |-> FALSE, log |-> << >>]
    ELSE IF create = "raises"
      THEN [mb |-> mb, lines |-> lines, result |-> FALSE,
            log |-> <<Cmd("CREATE", create)>>]
    ELSE [mb |-> IF create = "OK" THEN SrvCreate(mb, folder_name) ELSE mb,
          lines |-> IF create = "OK" THEN ListCreate(lines, folder_name) ELSE lines,
          result |-> TRUE, log |-> <<Cmd("CREATE", create)>>]

DeleteFolder(mb, lines, connected, folder_name, delete) ==
    IF ~connected
      THEN [mb |-> mb, lines |-> lines, result |-> FALSE, log |-> << >>]
    ELSE IF delete = "raises"
      THEN [mb |-> mb, lines |-> lines, result |-> FALSE,
            log |-> <<Cmd("DELETE", delete)>>]
    ELSE [mb |-> IF delete = "OK" THEN SrvDelete(mb, folder_name) ELSE mb,
          lines |-> IF delete = "OK" THEN ListDelete(lines, folder_name) ELSE lines,
          result |-> TRUE, log |-> <<Cmd("DELETE", delete)>>]

RenameFolder(mb, lines, connected, old_name, new_name, rename) ==
    IF ~connected
      THEN [mb |-> mb, lines |-> lines, result |-> FALSE, log |-> << >>]
    ELSE IF rename = "raises"
      THEN [mb |-> mb, lines |-> lines, result |-> FALSE,
            log |-> <<Cmd("RENAME", rename)>>]
    ELSE [mb |-> IF rename = "OK" THEN SrvRename(mb, old_name, new_name) ELSE mb,
          lines |-> IF rename = "OK" THEN ListRename(lines, old_name, new_name)
                    ELSE lines,
          result |-> TRUE, log |-> <<Cmd("RENAME", rename)>>]

\* How the unread count of one folder goes: both commands answer OK, the
\* SELECT or the SEARCH answers NO, or a statement raises.
Lookups == {"OK", "select NO", "search NO", "raises"}

\* the answer to SEARCH UNSEEN in a folder: how many messages lack \Seen
Unseen(mb, name) ==
    Cardinality({k \in 1 .. Len(mb[name]) : "Seen" \notin mb[name][k].flags})

\* _parse_folder_structure: one dictionary per line that ends in a quoted
\* name, in the order of the lines, and for each the unread count: set from
\* the SEARCH answer or to 0 when SEARCH answers NO or a statement raises,
\* and not set when SELECT answers NO.
RECURSIVE ParseFolderStructure(_, _, _, _)
ParseFolderStructure(mb, lines, lookup, i) ==
    IF i > Len(lines) THEN << >>
    ELSE IF ~FolderMatch(lines[i])
      THEN ParseFolderStructure(mb, lines, lookup, i + 1)
    ELSE <<[name |-> lines[i].name,
            hasUnread |-> lookup[i] # "select NO",
            unread |-> IF lookup[i] = "OK" THEN Unseen(mb, lines[i].name) ELSE 0]>>
         \o ParseFolderStructure(mb, lines, lookup, i + 1)

\* A variant of get_folders that parses whatever LIST answered.
GetFoldersAnyStatus(mb, lines, connected, list, lookup) ==
    IF ~connected THEN [exc |-> "ConnectionError", folders |-> << >>]
    ELSE IF list = "raises" THEN [exc |-> "list", folders |-> << >>]
    ELSE [exc |-> None,
          folders |-> ParseFolderStructure(mb, IF list = "OK" THEN lines ELSE << >>,
                                           lookup, 1)]

\* get_folders: connect, list, raise unless LIST answered OK, parse.
GetFolders(mb, lines, connected, list, lookup) ==
    IF ~connected THEN [exc |-> "ConnectionError", folders |-> << >>]
    ELSE IF list = "raises" THEN [exc |-> "list", folders |-> << >>]
    ELSE IF list # "OK" THEN [exc |-> "Failed to get folders", folders |-> << >>]
    ELSE [exc |-> None, folders |-> ParseFolderStructure(mb, lines, lookup, 1)]

\* The delimiter tokens the folder parsers look for in a line.
Delimiters == {".", "/", "%"}

\* delimiter = '.', then for each line: if '"."' in decoded: delimiter = '.'
\* elif '"/"' in decoded: delimiter = '/' elif '"%"' in decoded:
\* delimiter = '%'. The value after the loop over the lines from the i-th on.
RECURSIVE Delimiter(_, _, _)
Delimiter(lines, i, delimiter) ==
    IF i > Len(lines) THEN delimiter
    ELSE Delimiter(lines, i + 1,
            IF lines[i].delim \in Delimiters THEN lines[i].delim ELSE delimiter)

\* folder_name.split(delimiter) for the folder names of the model
Split(folder_name, delimiter) ==
    IF delimiter # "." THEN <<folder_name>>
    ELSE CASE folder_name = "INBOX.Work"     -> <<"INBOX", "Work">>
           [] folder_name = "INBOX.Work.Dev" -> <<"INBOX", "Work", "Dev">>
           [] folder_name = "Lists.Dev"      -> <<"Lists", "Dev">>
           [] OTHER                          -> <<folder_name>>

\* delimiter.join(parts) for the parts Split gives
JoinParts(parts, delimiter) ==
    CASE parts = << >>                  -> ""
      [] Len(parts) = 1                 -> parts[1]
      [] parts = <<"INBOX", "Work">>    -> "INBOX.Work"
      [] parts = <<"Lists", "Dev">>     -> "Lists.Dev"
      [] parts = <<"INBOX", "Work", "Dev">> -> "INBOX.Work.Dev"

\* identify_folder_type: the first standard type one of whose variations is
\* inside the lower-cased name ('in' is a variation of inbox), else folder
IdentifyFolderType(folder_name) ==
    CASE folder_name \in {"INBOX", "INBOX.Work", "INBOX.Work.Dev"} -> "inbox"
      [] folder_name = "Trash" -> "trash"
      [] OTHER -> "folder"

\* the folder names of the model in the order of sorted(key=str.lower)
LowerOrder == <<"INBOX", "INBOX.Work", "INBOX.Work.Dev", "Lists.Dev", "Trash">>

\* the same names in the order of folder_sort_key: INBOX, the folders of a
\* standard type, the others
FolderSortOrder == <<"INBOX", "INBOX.Work", "INBOX.Work.Dev", "Trash", "Lists.Dev">>

\* The first pass of the older get_folders: the name of each line, by the
\* regular expression when the name is quoted and by the last word of the
\* line when it is not.
AllFolders(lines) == [i \in 1 .. Len(lines) |-> lines[i].name]

\* sorted(...) and list.sort(...) on names: the names in the order of the
\* key, equal names kept.
RECURSIVE SortedBy(_, _, _)
SortedBy(order, names, k) ==
    IF k > Len(order) THEN << >>
    ELSE SelectSeq(names, LAMBDA n : n = order[k]) \o SortedBy(order, names, k + 1)

\* The second pass: each name in turn becomes a child of the folder at its
\* parent path when that folder has been seen, a top-level folder otherwise.
RECURSIVE BuildHierarchy(_, _, _, _, _)
BuildHierarchy(names, i, delimiter, folder_map, entries) ==
    IF i > Len(names) THEN entries
    ELSE LET parts == Split(names[i], delimiter)
             parent_path == JoinParts(SubSeq(parts, 1, Len(parts) - 1), delimiter)
         IN  BuildHierarchy(names, i + 1, delimiter, folder_map \cup {names[i]},
                Append(entries,
                   [name |-> names[i],
                    display_name |-> parts[Len(parts)],
                    type |-> IdentifyFolderType(names[i]),
                    parent |-> IF parent_path # "" /\ parent_path \in folder_map
                                 THEN parent_path ELSE None]))

\* the names of the top-level folders of the entries, sorted
TopLevel(entries) ==
    SortedBy(FolderSortOrder,
             [i \in 1 .. Len(SelectSeq(entries, LAMBDA e : e.parent = None)) |->
                 SelectSeq(entries, LAMBDA e : e.parent = None)[i].name], 1)

\* the entry synthesized for an empty structure
InboxFallback ==
    [name |-> "INBOX", display_name |-> "INBOX", type |-> "inbox", parent |-> None]

\* get_folders of the older client (endpoints/email_client.py): connect,
\* list, raise unless LIST answered OK; find the delimiter and the names;
\* build the hierarchy over the sorted names; sort the top level; put the
\* INBOX entry in when the structure is empty. tree has one entry per folder
\* with the path of the folder it is a child of; top has the top-level names
\* in their final order.
EndpointsGetFolders(lines, connected, list) ==
    IF ~connected
      THEN [exc |-> "ConnectionError", delimiter |-> None, top |-> << >>, tree |-> << >>]
    ELSE IF list = "raises"
      THEN [exc |-> "list", delimiter |-> None, top |-> << >>, tree |-> << >>]
    ELSE IF list # "OK"
      THEN [exc |-> "Failed to get folders", delimiter |-> None, top |-> << >>,
            tree |-> << >>]
    ELSE LET delimiter == Delimiter(lines, 1, ".")
             entries == BuildHierarchy(SortedBy(LowerOrder, AllFolders(lines), 1),
                                       1, delimiter, {}, << >>)
         IN  IF TopLevel(entries) = << >>
               THEN [exc |-> None, delimiter |-> delimiter,
                     top |-> <<"INBOX">>, tree |-> <<InboxFallback>>]
               ELSE [exc |-> None, delimiter |-> delimiter,
                     top |-> TopLevel(entries), tree |-> entries]

\* unread_counts after the loop of get_unread_count over the lines from the
\* i-th on: an entry per line that ends in a quoted name and whose SELECT
\* and SEARCH both answered OK; an entry of the same name is overwritten.
RECURSIVE UnreadCounts(_, _, _, _, _)
UnreadCounts(mb, lines, lookup, i, unread_counts) ==
    IF i > Len(lines) THEN unread_counts
    ELSE IF FolderMatch(lines[i]) /\ lookup[i] = "OK"
      THEN UnreadCounts(mb, lines, lookup, i + 1,
              {e \in unread_counts : e.name # lines[i].name}
                 \cup {[name |-> lines[i].name,
                        count |-> Unseen(mb, lines[i].name)]})
    ELSE UnreadCounts(mb, lines, lookup, i + 1, unread_counts)

\* A variant of get_unread_count in which a folder whose count cannot be
\* looked up fails the whole call.
GetUnreadCountAllOrNothing(mb, lines, connected, folder_name, list, lookup) ==
    IF folder_name # None
      THEN [returns |-> "int", counts |-> {},
            count |-> IF connected /\ lookup[1] = "OK"
                        THEN Unseen(mb, folder_name) ELSE 0]
    ELSE [returns |-> "dict", count |-> 0,
          counts |-> IF /\ connected
                        /\ list = "OK"
                        /\ \A i \in 1 .. Len(lines) : lookup[i] = "OK"
                       THEN UnreadCounts(mb, lines, lookup, 1, {}) ELSE {}]

\* get_unread_count: with a folder name the number SEARCH UNSEEN gives for
\* that folder, 0 when the session, SELECT or SEARCH fails; without one the
\* dictionary of the counts of the listed folders, empty when the session or
\* LIST fails. returns tells which of the two kinds of value is returned.
GetUnreadCount(mb, lines, connected, folder_name, list, lookup) ==
    IF folder_name # None
      THEN [returns |-> "int", counts |-> {},
            count |-> IF connected /\ lookup[1] = "OK"
                        THEN Unseen(mb, folder_name) ELSE 0]
    ELSE [returns |-> "dict", count |-> 0,
          counts |-> IF connected /\ list = "OK"
                       THEN UnreadCounts(mb, lines, lookup, 1, {}) ELSE {}]

\* The last operation on the mailbox: what it was called with, the mailbox
\* and the listing it found, what it sent and what it gave back.  prev tells
\* of the get_email before it, when that was the operation before.
NoDone ==
    [op |-> None, folder |-> None, target |-> None, id |-> 0, tok |-> None,
     connected |-> FALSE, list |-> None, result |-> None, exc |-> None, read |-> None,
     wasUnread |-> FALSE, log |-> << >>, before |-> << >>, lines |-> << >>,
     folders |-> << >>, lookup |-> << >>, prev |-> << >>,
     count |-> 0, counts |-> {}, delimiter |-> None, tree |-> << >>]

\* An operation called on message email_id of a folder.
Called(op, folder, email_id) ==
    [NoDone EXCEPT !.op = op, !.folder = folder, !.id = email_id,
                   !.tok = mbox[folder][email_id].tok,
                   !.wasUnread = "Seen" \notin mbox[folder][email_id].flags,
                   !.before = mbox, !.lines = listing,
                   !.prev = IF done.op # "get_email" THEN << >>
                            ELSE <<[same |-> done.folder = folder
                                              /\ done.id = email_id,
                                    returned |-> done.exc = None,
                                    wasUnread |-> done.wasUnread]>>]

\* The mailbox operations of a behaviour connect at once or not at all, and
\* a session they hold answers its probe.
MailConnects ==
    IF imap = NoSession
      THEN {<<Ok, Ok, Ok>>, <<"timed out", "timed out", "timed out">>}
      ELSE {<<Ok, Ok, Ok>>}

\* The session after an operation that selected a folder, or failed to.
Selecting(c, selected) ==
    IF c.exc # None THEN c.s
    ELSE [c.s EXCEPT !.sess[c.ret].state =
             IF selected THEN "SELECTED" ELSE "AUTH"]

\* A command is sent only when the one before it was answered so that the
\* code goes on.
After(goesOn) == IF goesOn THEN Statuses ELSE {"OK"}

\* The mailbox is as the behaviour found it: no operation has changed it.
Fresh == done.op = None

\* mark_as_read, mark_as_unread, flag_email, unflag_email: each hands its
\* flag to _set_flag or _remove_flag.
FlagOperation(op, sign, flag) ==
    /\ Fresh
    /\ \E folder \in DOMAIN mbox, outcomes \in MailConnects, select \in Statuses :
        \E email_id \in 1 .. Len(mbox[folder]), store \in After(select = "OK") :
         \E c \in {ConnectImap(Cur, Ok, outcomes)} :
          \E r \in {SetFlag(mbox, c.exc = None, folder, email_id, sign, flag,
                            select, store)} :
            /\ Len(c.s.sess) <= MaxSessions
            /\ Install(Selecting(c, r.selected))
            /\ mbox' = r.mb
            /\ done' = [Called(op, folder, email_id) EXCEPT
                           !.connected = c.exc = None,
                           !.result = r.result, !.exc = r.exc, !.log = r.log]
            /\ UNCHANGED <<ladderVars, last, page, listing, mail>>

mark_as_read == FlagOperation("mark_as_read", "+", "Seen")

mark_as_unread == FlagOperation("mark_as_unread", "-", "Seen")

flag_email == FlagOperation("flag_email", "+", "Flagged")

unflag_email == FlagOperation("unflag_email", "-", "Flagged")

move_email ==
    /\ Fresh
    /\ \E source_folder \in DOMAIN mbox, target_folder \in DOMAIN mbox,
          outcomes \in MailConnects, select \in Statuses :
        \E email_id \in 1 .. Len(mbox[source_folder]),
           copy \in After(select = "OK") :
         \E store \in After(select = "OK" /\ copy = "OK") :
          \E expunge \in After(select = "OK" /\ copy = "OK" /\ store # "raises") :
           \E c \in {ConnectImap(Cur, Ok, outcomes)} :
            \E r \in {MoveEmail(mbox, c.exc = None, source_folder, target_folder,
                                email_id, select, copy, store, expunge)} :
              /\ Len(c.s.sess) <= MaxSessions
              /\ Install(Selecting(c, r.selected))
              /\ mbox' = r.mb
              /\ done' = [Called("move_email", source_folder, email_id) EXCEPT
                             !.target = target_folder,
                             !.connected = c.exc = None,
                             !.result = r.result, !.log = r.log]
              /\ UNCHANGED <<ladderVars, last, page, listing, mail>>

delete_email ==
    /\ Fresh
    /\ \E folder \in DOMAIN mbox, outcomes \in MailConnects,
          list \in Statuses :
        \E email_id \in 1 .. Len(mbox[folder]), select \in After(list # "raises") :
         \E copy \in After(list # "raises" /\ select = "OK"
                           /\ FindFolder(FoldersRaw(list, listing), "Trash", 1)
                                 \notin {None, folder}) :
          \E store \in After(list # "raises" /\ select = "OK" /\ copy # "raises") :
           \E expunge \in After(list # "raises" /\ select = "OK"
                                /\ copy # "raises" /\ store # "raises") :
            \E c \in {ConnectImap(Cur, Ok, outcomes)} :
             \E r \in {DeleteEmail(mbox, listing, c.exc = None, folder, email_id,
                                   list, select, copy, store, expunge)} :
               /\ Len(c.s.sess) <= MaxSessions
               /\ Install(Selecting(c, r.selected))
               /\ mbox' = r.mb
               /\ done' = [Called("delete_email", folder, email_id) EXCEPT
                              !.connected = c.exc = None,
                              !.list = IF c.exc = None THEN list ELSE None,
                              !.result = r.result, !.log = r.log]
               /\ UNCHANGED <<ladderVars, last, page, listing, mail>>

\* How the mark_as_read inside get_email goes, on the session get_email
\* has just used: the answers to its SELECT and its STORE.
Marks ==
    {[connected |-> TRUE, select |-> select, store |-> store] :
        select \in Statuses, store \in Statuses}

\* get_email reads, and marks read, a mailbox no other operation changed.
get_email ==
    /\ done.op \in {None, "get_email"}
    /\ \E folder \in DOMAIN mbox, outcomes \in MailConnects, select \in Statuses :
        \E email_id \in 1 .. Len(mbox[folder]), fetch \in After(select = "OK"),
           flagsParsed \in BOOLEAN :
         \E mark \in (IF select = "OK" /\ fetch = "OK"
                         /\ ~(flagsParsed /\ "Seen" \in mbox[folder][email_id].flags)
                        THEN {m \in Marks : m.select = "OK" \/ m.store = "OK"}
                        ELSE {[connected |-> TRUE, select |-> "OK", store |-> "OK"]}) :
          \E c \in {ConnectImap(Cur, Ok, outcomes)} :
           \E r \in {GetEmail(mbox, c.exc = None, folder, email_id, select, fetch,
                              flagsParsed, mark)} :
              /\ Len(c.s.sess) <= MaxSessions
              /\ Install(Selecting(c, r.selected))
              /\ mbox' = r.mb
              /\ done' = [Called("get_email", folder, email_id) EXCEPT
                             !.connected = c.exc = None,
                             !.exc = r.exc, !.read = r.read, !.log = r.log]
              /\ UNCHANGED <<ladderVars, last, page, listing, mail>>

\* The names folders are created with and renamed to.
NewNames == {"Work"}

\* An operation called on a folder name.
CalledOn(op, folder_name) ==
    [NoDone EXCEPT !.op = op, !.folder = folder_name,
                   !.before = mbox, !.lines = listing]

\* The server answers OK to CREATE only for a name it does not have, to
\* DELETE and RENAME only for a name it has.
create_folder ==
    /\ Fresh
    /\ \E folder_name \in DOMAIN mbox \cup NewNames, outcomes \in MailConnects :
        \E create \in (IF folder_name \in DOMAIN mbox THEN {"NO", "raises"}
                       ELSE Statuses) :
         \E c \in {ConnectImap(Cur, Ok, outcomes)} :
          \E r \in {CreateFolder(mbox, listing, c.exc = None, folder_name, create)} :
            /\ Len(c.s.sess) <= MaxSessions
            /\ Install(c.s)
            /\ mbox' = r.mb
            /\ listing' = r.lines
            /\ done' = [CalledOn("create_folder", folder_name) EXCEPT
                           !.connected = c.exc = None,
                           !.result = r.result, !.log = r.log]
            /\ UNCHANGED <<ladderVars, last, page, mail>>

delete_folder ==
    /\ Fresh
    /\ \E folder_name \in DOMAIN mbox \cup NewNames, outcomes \in MailConnects :
        \E delete \in (IF folder_name \in DOMAIN mbox \ {"INBOX"} THEN Statuses
                       ELSE {"NO", "raises"}) :
         \E c \in {ConnectImap(Cur, Ok, outcomes)} :
          \E r \in {DeleteFolder(mbox, listing, c.exc = None, folder_name, delete)} :
            /\ Len(c.s.sess) <= MaxSessions
            /\ Install(c.s)
            /\ mbox' = r.mb
            /\ listing' = r.lines
            /\ done' = [CalledOn("delete_folder", folder_name) EXCEPT
                           !.connected = c.exc = None,
                           !.result = r.result, !.log = r.log]
            /\ UNCHANGED <<ladderVars, last, page, mail>>

rename_folder ==
    /\ Fresh
    /\ \E old_name \in DOMAIN mbox \cup NewNames, new_name \in NewNames,
          outcomes \in MailConnects :
        \E rename \in (IF old_name \in DOMAIN mbox \ {"INBOX"}
                          /\ new_name \notin DOMAIN mbox
                         THEN Statuses ELSE {"NO", "raises"}) :
         \E c \in {ConnectImap(Cur, Ok, outcomes)} :
          \E r \in {RenameFolder(mbox, listing, c.exc = None, old_name, new_name,
                                 rename)} :
            /\ Len(c.s.sess) <= MaxSessions
            /\ Install(c.s)
            /\ mbox' = r.mb
            /\ listing' = r.lines
            /\ done' = [CalledOn("rename_folder", old_name) EXCEPT
                           !.target = new_name,
                           !.connected = c.exc = None,
                           !.result = r.result, !.log = r.log]
            /\ UNCHANGED <<ladderVars, last, page, mail>>

\* get_folders over the listing and the mailbox; the lines that do not end
\* in a quoted name have no count looked up.
get_folders ==
    \E outcomes \in MailConnects, list \in Statuses :
     \E lookup \in (IF list = "OK"
                      THEN {l \in [1 .. Len(listing) -> Lookups] :
                              \A i \in 1 .. Len(listing) :
                                 ~FolderMatch(listing[i]) => l[i] = "OK"}
                      ELSE {[i \in 1 .. Len(listing) |-> "OK"]}) :
      \E c \in {ConnectImap(Cur, Ok, outcomes)} :
       \E r \in {GetFolders(mbox, listing, c.exc = None, list, lookup)} :
         /\ Len(c.s.sess) <= MaxSessions
         /\ Install(Selecting(c, r.exc = None /\ r.folders # << >>
                                 /\ lookup[Len(listing)] \in {"OK", "search NO"}))
         /\ done' = [NoDone EXCEPT !.op = "get_folders",
                                   !.connected = c.exc = None,
                                   !.list = IF c.exc = None THEN list ELSE None,
                                   !.exc = r.exc, !.folders = r.folders,
                                   !.delimiter = IF r.exc = None
                                                   THEN Delimiter(listing, 1, ".")
                                                   ELSE None,
                                   !.lookup = lookup,
                                   !.before = mbox, !.lines = listing]
         /\ UNCHANGED <<ladderVars, last, page, mbox, listing, mail>>

\* get_folders of the older client. Its connect_imap hands back a session
\* or raises ConnectionError; the sessions of that client are not among the
\* variables.
endpoints_get_folders ==
    \E connected \in BOOLEAN, list \in Statuses :
     \E r \in {EndpointsGetFolders(listing, connected, list)} :
       /\ connected \/ list = "OK"
       /\ done' = [NoDone EXCEPT !.op = "endpoints_get_folders",
                                 !.connected = connected,
                                 !.list = IF connected THEN list ELSE None,
                                 !.exc = r.exc, !.delimiter = r.delimiter,
                                 !.folders = r.top, !.tree = r.tree,
                                 !.before = mbox, !.lines = listing]
       /\ UNCHANGED <<ladderVars, clientVars, page, mbox, listing, mail>>

\* the line whose folder the session has selected last, 0 when none
RECURSIVE LastLookedUp(_, _)
LastLookedUp(lines, i) ==
    IF i = 0 THEN 0
    ELSE IF FolderMatch(lines[i]) THEN i
    ELSE LastLookedUp(lines, i - 1)

\* get_unread_count for a folder of the account, or for all of them.
get_unread_count ==
    \E outcomes \in MailConnects, folder_name \in {None} \cup DOMAIN mbox :
     \E list \in (IF folder_name = None THEN Statuses ELSE {"OK"}) :
      \E lookup \in (IF folder_name # None
                       THEN {<<l>> : l \in Lookups}
                     ELSE IF list = "OK"
                       THEN {l \in [1 .. Len(listing) -> Lookups] :
                               \A i \in 1 .. Len(listing) :
                                  ~FolderMatch(listing[i]) => l[i] = "OK"}
                     ELSE {[i \in 1 .. Len(listing) |-> "OK"]}) :
       \E c \in {ConnectImap(Cur, Ok, outcomes)} :
        \E r \in {GetUnreadCount(mbox, listing, c.exc = None, folder_name,
                                 list, lookup)} :
         /\ Len(c.s.sess) <= MaxSessions
         /\ Install(Selecting(c,
               IF folder_name # None THEN lookup[1] \in {"OK", "search NO"}
               ELSE /\ list = "OK"
                    /\ LastLookedUp(listing, Len(listing)) # 0
                    /\ lookup[LastLookedUp(listing, Len(listing))]
                          \in {"OK", "search NO"}))
         /\ done' = [NoDone EXCEPT !.op = "get_unread_count",
                                   !.folder = folder_name,
                                   !.connected = c.exc = None,
                                   !.list = IF c.exc = None /\ folder_name = None
                                              THEN list ELSE None,
                                   !.result = r.returns,
                                   !.count = r.count, !.counts = r.counts,
                                   !.lookup = lookup,
                                   !.before = mbox, !.lines = listing]
         /\ UNCHANGED <<ladderVars, last, page, mbox, listing, mail>>

\* limit and offset as get_emails declares them
DefaultLimit == 50
DefaultOffset == 0

\* get_emails(folder) with its default limit, offset and criterion (ALL),
\* read from the mailbox after a move: every message of the folder matches
\* and fetches.
get_emails_of ==
    /\ done.op = "move_email"
    /\ \E folder \in DOMAIN mbox, outcomes \in MailConnects, answer \in Answers :
     \E c \in {ConnectImap(Cur, Ok, outcomes)} :
      \E r \in {GetEmails(answer[1], answer[2],
                          [k \in 1 .. Len(mbox[folder]) |-> k],
                          DefaultLimit, DefaultOffset,
                          [k \in 1 .. Len(mbox[folder]) |-> "OK"])} :
        /\ Len(c.s.sess) <= MaxSessions
        /\ Install(Selecting(c, answer[1] = "OK"))
        /\ page' = IF c.exc # None
                     THEN [NoPage EXCEPT !.called = TRUE, !.exc = c.exc,
                                         !.folder = folder, !.since = done.op]
                     ELSE [NoPage EXCEPT
                             !.called = TRUE, !.exc = r.exc,
                             !.select = answer[1], !.search = answer[2],
                             !.email_ids = [k \in 1 .. Len(mbox[folder]) |-> k],
                             !.limit = DefaultLimit, !.offset = DefaultOffset,
                             !.fetch = [k \in 1 .. Len(mbox[folder]) |-> "OK"],
                             !.emails = r.emails, !.total = r.total,
                             !.folder = folder,
                             !.toks = [i \in 1 .. Len(r.emails) |->
                                         mbox[folder][r.emails[i]].tok],
                             !.since = done.op]
        /\ UNCHANGED <<ladderVars, last, mailVars, mail>>

----------------------------------------------------------------------------
(* The specifications. *)

ClientInit ==
    /\ imap = NoSession
    /\ smtp = NoSession
    /\ sess = << >>
    /\ staleSeen = {}
    /\ last = NoLast

\* No call into the connection manager is modelled step by step.
LadderIdle ==
    /\ call = [t \in Threads |-> IdleFrame]
    /\ sockTimeout = None
    /\ callers = {}

\* No mailbox is looked at and no message is asked to be sent.
MailIdle ==
    /\ mbox = << >>
    /\ listing = << >>
    /\ done = NoDone

\* What INBOX holds at first: a message, unread or read, and after it
\* none, a second one, or a second one that another client marked deleted.
Inboxes ==
    {<<Message("m1", seen)>> \o rest :
        seen \in {{}, {"Seen"}},
        rest \in {<< >>, <<Message("m2", {})>>, <<Message("m2", {"Deleted"})>>}}

\* What the second folder holds at first: nothing, or an unread message.
Others == {<< >>, <<Message("m3", {})>>}

\* The second folder of the account and its LIST line: a Trash folder
\* listed with a quoted name, one listed with a bare name, and a folder
\* nothing marks as Trash.
SecondFolders ==
    {Line({"HasNoChildren", "Trash"}, "Trash", TRUE),
     Line({"HasNoChildren", "Trash"}, "Trash", FALSE),
     Line({"HasNoChildren"}, "Archive", TRUE)}

\* An account with INBOX and a second folder.
MailboxInit ==
    /\ \E line \in SecondFolders, inbox \in Inboxes, other \in Others :
          /\ mbox = [f \in {"INBOX", line.name} |->
                        IF f = "INBOX" THEN inbox ELSE other]
          /\ listing = <<Line({"HasNoChildren"}, "INBOX", TRUE), line>>
    /\ done = NoDone

\* One thread calling create_imap_connection / create_smtp_connection.
LadderInit ==
    /\ call = [t \in Threads |-> IdleFrame]
    /\ sockTimeout \in OriginalTimeouts
    /\ callers = {"t1"}
    /\ ClientInit
    /\ page = NoPage
    /\ MailIdle
    /\ mail = NoMail

LadderNext ==
    \/ \E t \in Threads : SaveTimeout(t) /\ UNCHANGED <<clientVars, page, mailVars, mail>>
    \/ \E t \in Threads : InstallTimeout(t) /\ UNCHANGED <<clientVars, page, mailVars, mail>>
    \/ \E t \in Threads : TryStrategy(t) /\ UNCHANGED <<clientVars, page, mailVars, mail>>
    \/ \E t \in Threads : RaiseAllFailed(t) /\ UNCHANGED <<clientVars, page, mailVars, mail>>
    \/ \E t \in Threads : RestoreTimeout(t) /\ UNCHANGED <<clientVars, page, mailVars, mail>>
    \/ \E t \in Threads : CallAgain(t) /\ UNCHANGED <<clientVars, page, mailVars, mail>>

SpecLadder == LadderInit /\ [][LadderNext]_vars

\* Two threads, each making one call into the connection manager at a time
\* of its own choosing, so that the calls may overlap: the statements of the
\* two calls interleave in every order. Both configure the default port of
\* the one server and leave allow_insecure off; a strategy succeeds or times
\* out.
RaceInit ==
    /\ call = [t \in Threads |-> IdleFrame]
    /\ sockTimeout \in OriginalTimeouts
    /\ callers = Threads
    /\ ClientInit
    /\ page = NoPage
    /\ MailIdle
    /\ mail = NoMail

RaceCalls(t) ==
    /\ call'[t].port \in {0, DefaultImapPort, DefaultSmtpPort}
    /\ ~call'[t].allow_insecure
    /\ \A i \in 1 .. Len(call'[t].attempts) :
          call'[t].attempts[i].outcome \in {Ok, "timed out"}

RaceNext ==
    \/ \E t \in Threads : SaveTimeout(t) /\ RaceCalls(t) /\ UNCHANGED <<clientVars, page, mailVars, mail>>
    \/ \E t \in Threads : InstallTimeout(t) /\ UNCHANGED <<clientVars, page, mailVars, mail>>
    \/ \E t \in Threads : TryStrategy(t) /\ RaceCalls(t) /\ UNCHANGED <<clientVars, page, mailVars, mail>>
    \/ \E t \in Threads : RaiseAllFailed(t) /\ UNCHANGED <<clientVars, page, mailVars, mail>>
    \/ \E t \in Threads : RestoreTimeout(t) /\ UNCHANGED <<clientVars, page, mailVars, mail>>

SpecRace == RaceInit /\ [][RaceNext]_vars

\* One client used by one thread.
Init ==
    /\ LadderIdle
    /\ ClientInit
    /\ page = NoPage
    /\ MailIdle
    /\ mail = NoMail

Next ==
    \/ connect_imap
    \/ connect_smtp
    \/ disconnect
    \/ send_email

Spec == Init /\ [][Next]_vars

\* One client whose settings are tested, before and after it has connected.
TestNext ==
    \/ test_connection
    \/ connect_imap
    \/ disconnect

SpecTest == Init /\ [][TestNext]_vars

\* One client whose user lists one folder: the folder's matching ids, how
\* each message fetches, and the limit and offset the user asks with.
EmailsInit ==
    /\ LadderIdle
    /\ ClientInit
    /\ \E email_ids \in MatchSets :
         \E fetch \in [{email_ids[k] : k \in 1 .. Len(email_ids)} -> FetchOutcomes],
            limit \in 0 .. MaxArg, offset \in 0 .. MaxArg :
            page = [NoPage EXCEPT !.email_ids = email_ids, !.fetch = fetch,
                                  !.limit = limit, !.offset = offset]
    /\ MailIdle
    /\ mail = NoMail

EmailsNext == get_emails

SpecEmails == EmailsInit /\ [][EmailsNext]_vars

\* One client working on one account: a behaviour applies one of the
\* changing operations to the mailbox it finds, and reads before and after.
MailInit ==
    /\ LadderIdle
    /\ ClientInit
    /\ page = NoPage
    /\ MailboxInit
    /\ mail = NoMail

MailNext ==
    \/ mark_as_read
    \/ mark_as_unread
    \/ flag_email
    \/ unflag_email
    \/ delete_email
    \/ move_email
    \/ create_folder
    \/ delete_folder
    \/ rename_folder
    \/ get_email
    \/ get_emails_of

SpecMail == MailInit /\ [][MailNext]_vars

\* One client building the folder view of one account and listing a folder.
FoldersInit ==
    /\ LadderIdle
    /\ ClientInit
    /\ page = [NoPage EXCEPT !.email_ids = <<1, 2>>,
                             !.fetch = [k \in 1 .. 2 |-> "OK"],
                             !.limit = DefaultLimit, !.offset = DefaultOffset]
    /\ MailboxInit
    /\ mail = NoMail

FoldersNext ==
    \/ get_folders
    \/ get_emails

SpecFolders == FoldersInit /\ [][FoldersNext]_vars

\* The LIST answers a folder view is built from: a folder and its child;
\* the same under two delimiters, either one first; a name that is not
\* quoted; a child whose parent is not listed beside a standard folder; a
\* name outside every hierarchy; no folder at all; three levels, the deepest
\* listed first.
TreeListings ==
    {<<LineDelim({"HasChildren"}, ".", "INBOX", TRUE),
       LineDelim({"HasNoChildren"}, ".", "INBOX.Work", TRUE)>>,
     <<LineDelim({"HasChildren"}, "/", "INBOX", TRUE),
       LineDelim({"HasNoChildren"}, ".", "INBOX.Work", TRUE)>>,
     <<LineDelim({"HasChildren"}, ".", "INBOX", TRUE),
       LineDelim({"HasNoChildren"}, "/", "INBOX.Work", TRUE)>>,
     <<LineDelim({"HasNoChildren"}, ".", "INBOX", FALSE)>>,
     <<LineDelim({"HasNoChildren"}, ".", "INBOX", TRUE),
       LineDelim({"HasNoChildren"}, ".", "Lists.Dev", TRUE),
       LineDelim({"HasNoChildren"}, ".", "Trash", TRUE)>>,
     <<LineDelim({"Noselect"}, None, "INBOX.Work", TRUE),
       LineDelim({"HasNoChildren"}, ".", "INBOX", TRUE)>>,
     << >>,
     <<LineDelim({"HasNoChildren"}, ".", "INBOX.Work.Dev", TRUE),
       LineDelim({"HasChildren"}, ".", "INBOX", TRUE),
       LineDelim({"HasChildren"}, ".", "INBOX.Work", TRUE)>>}

\* One account whose folders are listed by both clients; every folder holds
\* one unread message.
TreeInit ==
    /\ LadderIdle
    /\ ClientInit
    /\ page = NoPage
    /\ listing \in TreeListings
    /\ mbox = [f \in {listing[i].name : i \in 1 .. Len(listing)} |->
                  <<Message("m1", {})>>]
    /\ done = NoDone
    /\ mail = NoMail

TreeNext ==
    \/ get_folders
    \/ endpoints_get_folders

SpecTree == TreeInit /\ [][TreeNext]_vars

\* One client asking for the unread counts of the account it finds.
UnreadNext == get_unread_count

SpecUnread == MailInit /\ [][UnreadNext]_vars

\* The recipient lists and strings send_email is called with.
ToArgs == {StrArg("a"), ListArg(<<"a">>), ListArg(<<"a", "b">>)}

CcArgs == {NoneArg, StrArg(""), StrArg("b"), ListArg(<<"b", "c">>)}

BccArgs ==
    {NoneArg, StrArg(""), StrArg("c"), ListArg(<< >>), ListArg(<<"c", "a">>)}

\* One client sending one message, again and again.
SendInit ==
    /\ LadderIdle
    /\ ClientInit
    /\ page = NoPage
    /\ MailIdle
    /\ \E to \in ToArgs, cc \in CcArgs, bcc \in BccArgs :
          mail = Request(to, cc, bcc)

SendNext == send_email

SpecSend == SendInit /\ [][SendNext]_vars

----------------------------------------------------------------------------
(* The connection ladders (SpecLadder). *)

Frames(kind) == {call[t] : t \in {u \in callers : call[u].kind = kind}}

Finished(f) == f.pc \in {"returned", "raised"}

LastAttempt(f) == f.attempts[Len(f.attempts)]

C3_MessageHasLastFailure ==
    \A f \in Frames("imap") :
       f.pc = "raised" =>
          \E k \in 1 .. Len(f.error) : f.error[k] = LastAttempt(f).outcome

\* C4: with one calling thread, each ladder step runs under the manager's
\* configured timeout as the process-wide default, and once the call has
\* returned or raised the default is what it was before the call.
C4_TimeoutScoped ==
    \A t \in callers :
       /\ \A i \in 1 .. Len(call[t].attempts) :
             call[t].attempts[i].during = call[t].timeout
       /\ Finished(call[t]) => sockTimeout = call[t].before

\* C4 witness: a call that raised after three attempts under a 60 s manager
\* timeout, in a process whose default had been 10 s.
C4_Witness ==
    \E t \in callers :
       /\ call[t].pc = "raised"
       /\ Len(call[t].attempts) = 3
       /\ call[t].timeout = "60"
       /\ call[t].before = "10"
       /\ sockTimeout = "10"

----------------------------------------------------------------------------
(* The client's sessions (Spec). *)

SessionIds == 1 .. Len(sess)

\* C5: connect_imap on a client that holds a session probes it; a
\* successful probe returns that session and creates none; a failed probe
\* drops it and runs the IMAP ladder, all three strategies allowed; and the
\* session the client holds or returns is never one whose probe failed.
C5_ProbeThenReuseOrRecreate ==
    /\ imap \notin staleSeen
    /\ (last.op = "connect_imap" /\ last.imapBefore # NoSession) =>
          /\ last.probe = Ok =>
                /\ last.ret = last.imapBefore
                /\ imap = last.imapBefore
                /\ last.exc = None
                /\ last.created = 0
                /\ last.tried = 0
          /\ last.probe # Ok =>
                /\ last.imapBefore \in staleSeen
                /\ last.ret # last.imapBefore
                /\ last.tried \in 1 .. 3
                /\ last.exc = None =>
                      /\ last.created = 1
                      /\ last.ret = Len(sess)
                      /\ imap = last.ret
                /\ last.exc # None =>
                      /\ last.tried = 3
                      /\ last.created = 0
                      /\ imap = NoSession

\* C5 witness: the probe of the held session failed and the ladder's third
\* strategy gave the client a new session.
C5_Witness ==
    /\ last.op = "connect_imap"
    /\ last.imapBefore # NoSession
    /\ last.probe # Ok
    /\ last.tried = 3
    /\ last.exc = None
    /\ imap # NoSession

C7_NoSmtpSessionAfterSend ==
    last.op = "send_email" => smtp = NoSession

\* C8: the client's imap field is empty or an IMAP session, its smtp field
\* empty or an SMTP session; after disconnect both are empty, also when
\* logout or quit raised; after a connect_imap or connect_smtp that raised
\* ConnectionError the field of that kind is empty.
C8_AtMostOneSessionEach ==
    /\ imap \in {NoSession} \cup SessionIds
    /\ smtp \in {NoSession} \cup SessionIds
    /\ imap # NoSession => sess[imap].kind = "imap" /\ sess[imap].state # "LOGOUT"
    /\ smtp # NoSession => sess[smtp].kind = "smtp" /\ sess[smtp].state = "open"
    /\ last.op = "disconnect" => imap = NoSession /\ smtp = NoSession
    /\ (last.op = "connect_imap" /\ last.exc = "ConnectionError") =>
          imap = NoSession
    /\ (last.op = "connect_smtp" /\ last.exc = "ConnectionError") =>
          smtp = NoSession

\* C8 witness: a disconnect of a client holding both sessions, in which
\* logout and quit both raised.
C8_Witness ==
    /\ last.op = "disconnect"
    /\ last.imapBefore # NoSession
    /\ last.smtpBefore # NoSession
    /\ last.raised = {"logout", "quit"}
    /\ imap = NoSession
    /\ smtp = NoSession

----------------------------------------------------------------------------
(* get_emails (SpecEmails). *)

\* the positions of the match set the page covers: offset+1 .. min(offset+limit, n)
PagePositions ==
    (page.offset + 1) .. Min(page.offset + page.limit, Len(page.email_ids))

PageIds == {page.email_ids[k] : k \in PagePositions}

Returned == {page.emails[k] : k \in 1 .. Len(page.emails)}

Listed == page.called /\ page.select = "OK" /\ page.search = "OK"

\* C9: for a match set m of n ascending ids, offset >= 0 and limit >= 0,
\* get_emails returns the total n and, when every fetch of the page
\* succeeds, exactly m[offset .. min(offset+limit, n)-1] in descending order.
C9_PageOfMatchSet ==
    Listed =>
       /\ page.exc = None
       /\ page.total = Len(page.email_ids)
       /\ (\A m \in PageIds : page.fetch[m] = "OK") =>
             /\ Len(page.emails) = Cardinality(PagePositions)
             /\ \A k \in 1 .. Len(page.emails) :
                   page.emails[k] =
                      page.email_ids[Min(page.offset + page.limit,
                                         Len(page.email_ids)) - k + 1]

\* C9 witness: a page of two messages that starts after the first match.
C9_Witness ==
    /\ Listed
    /\ page.offset = 1
    /\ Len(page.email_ids) = 3
    /\ Len(page.emails) = 2
    /\ page.emails[1] > page.emails[2]
    /\ page.total = 3

\* C10: a message of the page whose fetch answers non-OK or whose fetch or
\* parse raises is left out; every other message of the page is returned,
\* in the page's descending order; the call does not raise.
C10_FailedFetchSkipped ==
    Listed =>
       /\ page.exc = None
       /\ Returned = {m \in PageIds : page.fetch[m] = "OK"}
       /\ \A j, k \in 1 .. Len(page.emails) :
             j < k => page.emails[j] > page.emails[k]

\* C10 witness: the first message fetched failed and a later one of the same
\* page was returned.
C10_Witness ==
    /\ Listed
    /\ page.emails # << >>
    /\ \E m \in PageIds :
          /\ page.fetch[m] # "OK"
          /\ m > page.emails[1]

\* C20: once the SMTP submission of send_email succeeded the call returns
\* True, whatever became of the copy for the Sent folder; and a call whose
\* submission did not succeed returns False and appends no copy.
C20_SentCopyBestEffort ==
    last.op = "send_email" =>
       /\ last.submitted => last.result = TRUE
       /\ ~last.submitted =>
             /\ last.result = FALSE
             /\ ~last.appended
             /\ mail.copy = None
       /\ last.appended => mail.copy = "appended"

\* C20 witness: a submitted message whose APPEND to the Sent folder failed,
\* and send_email returned True.
C20_Witness ==
    /\ last.op = "send_email"
    /\ last.submitted
    /\ mail.copy = "append failed"
    /\ ~last.appended
    /\ last.result = TRUE

----------------------------------------------------------------------------
(* get_folders and get_emails (SpecFolders). *)

\* C11: get_folders raises, and returns no folder, when LIST does not
\* answer OK; get_emails raises, and returns no message and no total, when
\* the SELECT or the SEARCH does not answer OK.
C11_PrimaryFailuresRaise ==
    /\ (done.op = "get_folders" /\ done.connected /\ done.list # "OK") =>
          /\ done.exc # None
          /\ done.folders = << >>
    /\ (page.called /\ (page.select = "NO" \/ page.search = "NO")) =>
          /\ page.exc # None
          /\ page.emails = << >>
          /\ page.total = 0

\* C11 witness: a LIST that answered NO to get_folders, and a SEARCH that
\* answered NO to get_emails after its SELECT went through.
C11_Witness ==
    /\ done.op = "get_folders"
    /\ done.list = "NO"
    /\ done.exc = "Failed to get folders"
    /\ page.called
    /\ page.select = "OK"
    /\ page.search = "NO"
    /\ page.exc = "Search failed"

\* the line of the listing get_folders read that names the folder
LineOf(name) == CHOOSE i \in 1 .. Len(done.lines) : done.lines[i].name = name

\* C12: every folder get_folders returns has an unread count, and the count
\* is zero for a folder whose lookup failed (SELECT or SEARCH not OK, or an
\* exception) and the number of unseen messages for every other folder.
C12_EveryFolderCounted ==
    (done.op = "get_folders" /\ done.exc = None) =>
       \A i \in 1 .. Len(done.folders) :
          /\ done.folders[i].hasUnread
          /\ done.folders[i].unread =
                IF done.lookup[LineOf(done.folders[i].name)] = "OK"
                  THEN Unseen(done.before, done.folders[i].name)
                  ELSE 0

----------------------------------------------------------------------------
(* The operations on messages and folders (SpecMail). *)

\* the commands of the log, without their answers
Commands(log) == [i \in 1 .. Len(log) |-> log[i][1]]

Raised(log) == \E i \in 1 .. Len(log) : log[i][2] = "raises"

IsPrefix(s, t) ==
    /\ Len(s) <= Len(t)
    /\ \A i \in 1 .. Len(s) : s[i] = t[i]

\* C13: a get_email that returns, called on an unread message or called
\* again on a message a returning get_email found unread, returns read True.
C13_ReadAfterGetEmail ==
    (/\ done.op = "get_email"
     /\ done.exc = None
     /\ \/ done.wasUnread
        \/ /\ done.prev # << >>
           /\ done.prev[1].same
           /\ done.prev[1].returned
           /\ done.prev[1].wasUnread)
    => done.read = TRUE

\* C13 witness: get_email returned for an unread message, and the next
\* get_email of the same message returned read True.
C13_Witness ==
    /\ done.op = "get_email"
    /\ done.exc = None
    /\ done.prev # << >>
    /\ done.prev[1].same
    /\ done.prev[1].returned
    /\ done.prev[1].wasUnread
    /\ done.read = TRUE

\* C14: when get_email returns, the read field it returns is the message's
\* \Seen flag in the mailbox.
C14_ReadIsSeenFlag ==
    (done.op = "get_email" /\ done.exc = None) =>
       (done.read = ("Seen" \in mbox[done.folder][done.id].flags))

MutatingOperations ==
    {"mark_as_read", "mark_as_unread", "flag_email", "unflag_email",
     "delete_email", "move_email", "create_folder", "delete_folder",
     "rename_folder"}

CopySent ==
    /\ done.op = "move_email"
    /\ Len(done.log) >= 2
    /\ done.log[2][1] = "COPY"

\* C16 as stated: when COPY does not answer OK move_email returns False
\* after SELECT and COPY alone, and the source folder is as it was; when
\* COPY answers OK it sends STORE and EXPUNGE, in that order, and returns
\* True.
C16_MoveCopyGate ==
    CopySent =>
       /\ done.log[2][2] # "OK" =>
             /\ done.result = FALSE
             /\ Commands(done.log) = <<"SELECT", "COPY">>
             /\ mbox[done.folder] = done.before[done.folder]
       /\ done.log[2][2] = "OK" =>
             /\ Commands(done.log) = <<"SELECT", "COPY", "STORE", "EXPUNGE">>
             /\ done.result = TRUE

\* C16 amended: when COPY does not answer OK move_email returns False after
\* SELECT and COPY alone, and the source folder is as it was; when COPY
\* answers OK it sends STORE and then EXPUNGE and returns True, unless STORE
\* or EXPUNGE raises: then it stops at that command and returns False.
C16_MoveCopyGateUnlessRaised ==
    CopySent =>
       /\ done.log[2][2] # "OK" =>
             /\ done.result = FALSE
             /\ Commands(done.log) = <<"SELECT", "COPY">>
             /\ mbox[done.folder] = done.before[done.folder]
       /\ done.log[2][2] = "OK" =>
             /\ IsPrefix(Commands(done.log), <<"SELECT", "COPY", "STORE", "EXPUNGE">>)
             /\ Len(done.log) >= 3
             /\ ~Raised(done.log) =>
                   /\ Commands(done.log) = <<"SELECT", "COPY", "STORE", "EXPUNGE">>
                   /\ done.result = TRUE
             /\ Raised(done.log) =>
                   /\ done.log[Len(done.log)][2] = "raises"
                   /\ done.result = FALSE

\* C16 witness: a COPY that answered NO, after which move_email returned
\* False and the message is where it was.
C16_Witness ==
    /\ CopySent
    /\ done.log[2][2] = "NO"
    /\ done.result = FALSE
    /\ Len(done.log) = 2
    /\ mbox[done.folder][done.id].tok = done.tok

\* C17: after move_email(A, B, id) returned True, a get_emails of B lists
\* the moved message and a get_emails of A does not.
C17_MovedMessageListed ==
    (/\ done.op = "move_email"
     /\ done.result = TRUE
     /\ done.folder # done.target
     /\ page.called
     /\ page.since = "move_email"
     /\ page.exc = None)
    => /\ page.folder = done.target =>
             \E i \in 1 .. Len(page.toks) : page.toks[i] = done.tok
       /\ page.folder = done.folder =>
             \A i \in 1 .. Len(page.toks) : page.toks[i] # done.tok

\* the lines of a listing that mention Trash and end in a quoted name
TrashLines(lines) ==
    {i \in 1 .. Len(lines) :
        /\ "Trash" \in lines[i].attrs \/ lines[i].name = "Trash"
        /\ lines[i].quoted}

\* a Trash folder is found in the listing delete_email read, and it is not
\* the folder delete_email was called on
TrashElsewhere ==
    /\ done.list = "OK"
    /\ TrashLines(done.lines) # {}
    /\ done.lines[CHOOSE i \in TrashLines(done.lines) :
                     \A j \in TrashLines(done.lines) : i <= j].name # done.folder

\* a delete_email that listed the folders and selected its folder
DeleteBegun ==
    /\ done.op = "delete_email"
    /\ Len(done.log) >= 2
    /\ done.log[2] = <<"SELECT", "OK">>

\* the commands delete_email sent after LIST and SELECT
AfterSelect == SubSeq(Commands(done.log), 3, Len(done.log))

Tokens(folder) == {folder[k].tok : k \in 1 .. Len(folder)}

\* the Trash folder delete_email found in the listing it read
TrashFound ==
    done.lines[CHOOSE i \in TrashLines(done.lines) :
                  \A j \in TrashLines(done.lines) : i <= j].name

\* C27: after a move_email, and after a delete_email that goes by the Trash
\* folder, the message is in the source folder or in the destination, and it
\* has left the source only if COPY answered OK.
C27_NoMessageLost ==
    /\ done.op = "move_email" =>
          /\ done.tok \in Tokens(mbox[done.folder]) \cup Tokens(mbox[done.target])
          /\ done.tok \notin Tokens(mbox[done.folder]) =>
                (Len(done.log) >= 2 /\ done.log[2] = <<"COPY", "OK">>)
    /\ (DeleteBegun /\ TrashElsewhere) =>
          /\ done.tok \in Tokens(mbox[done.folder]) \cup Tokens(mbox[TrashFound])
          /\ done.tok \notin Tokens(mbox[done.folder]) =>
                (Len(done.log) >= 3 /\ done.log[3] = <<"COPY", "OK">>)

\* the commands whose answer tells whether the change was made
ChangingCommands == {"STORE", "COPY", "EXPUNGE", "CREATE", "DELETE", "RENAME"}

\* C28: a changing operation that returns True had every STORE, COPY,
\* EXPUNGE, CREATE, DELETE and RENAME it sent answered OK.
C28_TrueMeansEveryCommandOk ==
    (done.op \in MutatingOperations /\ done.result = TRUE) =>
       \A i \in 1 .. Len(done.log) :
          done.log[i][1] \in ChangingCommands => done.log[i][2] = "OK"

\* C29: after move_email and delete_email every message of the source folder
\* other than the one named by the call is still in the source folder.
C29_OnlyNamedMessageRemoved ==
    done.op \in {"move_email", "delete_email"} =>
       Tokens(done.before[done.folder]) \ {done.tok} \subseteq Tokens(mbox[done.folder])

----------------------------------------------------------------------------
(* send_email and its recipients (SpecSend). *)

\* the addresses an argument of send_email names
Addresses(arg) ==
    IF arg.type = "list" THEN {arg.v[k] : k \in 1 .. Len(arg.v)}
    ELSE IF arg.type = "str" /\ arg.s # "" THEN {arg.s}
    ELSE {}

Envelope == {mail.envelope[k] : k \in 1 .. Len(mail.envelope)}

\* the addresses in the text of a header
HeaderAddresses(h) == {h.text[k] : k \in 1 .. Len(h.text)} \ {", "}

HeadersNamed(name) ==
    {k \in 1 .. Len(mail.headers) : mail.headers[k].name = name}

----------------------------------------------------------------------------
(* The encryption of the session the SMTP ladder returns (SpecLadder). *)

\* C30: with allow_insecure false, the session create_smtp_connection
\* returns is encrypted, by direct TLS or by a completed STARTTLS, also when
\* the server does not advertise STARTTLS.
C30_SmtpSessionEncrypted ==
    \A f \in Frames("smtp") :
       (f.pc = "returned" /\ ~f.allow_insecure) =>
          f.conn[1].channel \in {"tls", "starttls"}

----------------------------------------------------------------------------
(* Two threads in the connection manager at once (SpecRace). *)

\* the default timeout before either thread's call began: the one the
\* thread that saved first has read
ValueBeforeFirstAttempt ==
    call[CHOOSE t \in Threads : call[t].before \in OriginalTimeouts].before

\* C26: once the overlapping connection attempts of two threads have both
\* finished, the process-wide socket timeout is the value it had before the
\* first of them began.
C26_TimeoutRestoredAfterBoth ==
    (\A t \in Threads : Finished(call[t])) =>
        sockTimeout = ValueBeforeFirstAttempt

----------------------------------------------------------------------------
(* get_unread_count (SpecUnread). *)

\* the lines of the listing get_unread_count read whose count was looked up
\* with success: the name extracted, SELECT and SEARCH answered OK
LookedUp ==
    {i \in 1 .. Len(done.lines) :
        FolderMatch(done.lines[i]) /\ done.lookup[i] = "OK"}

\* C21: get_unread_count does not raise. With a folder name it returns one
\* count, the folder's number of unseen messages, and 0 when there is no
\* session or SELECT or SEARCH fails. Without one it returns a mapping that
\* has exactly the listed folders whose lookup succeeded, each with its
\* number of unseen messages: a folder whose lookup failed is absent and the
\* others are not affected.
C21_UnreadCountNeverRaises ==
    done.op = "get_unread_count" =>
       /\ done.exc = None
       /\ done.folder # None =>
             /\ done.result = "int"
             /\ done.count =
                   IF done.connected /\ done.lookup[1] = "OK"
                     THEN Unseen(done.before, done.folder) ELSE 0
       /\ done.folder = None =>
             /\ done.result = "dict"
             /\ {e.name : e \in done.counts} =
                   IF done.connected /\ done.list = "OK"
                     THEN {done.lines[i].name : i \in LookedUp} ELSE {}
             /\ \A e \in done.counts : e.count = Unseen(done.before, e.name)
             /\ \A e1, e2 \in done.counts : e1.name = e2.name => e1 = e2

\* C21 witness: of two listed folders the lookup of the first failed, and
\* the mapping returned has the second with its unread message.
C21_Witness ==
    /\ done.op = "get_unread_count"
    /\ done.folder = None
    /\ done.lookup[1] = "select NO"
    /\ \E e \in done.counts : e.name # "INBOX" /\ e.count = 1

----------------------------------------------------------------------------
(* test_connection (SpecTest). *)

\* what the last test_connection returned and did
Tested == last.test[1]

\* C22: test_connection does not raise; its IMAP flag is true exactly when
\* the IMAP ladder produced a logged-in session, its SMTP flag exactly when
\* the SMTP ladder did; the SMTP ladder is run whether or not the IMAP one
\* succeeded; no session opened for the test is open when the call returns.
C22_TestConnectionFlags ==
    last.op = "test_connection" =>
       /\ Tested.exc = None
       /\ Tested.imap_success <=> (Tested.imapSession # None)
       /\ Tested.smtp_success <=> (Tested.smtpSession # None)
       /\ Tested.smtpTried > 0
       /\ Tested.imapSession # "open"
       /\ Tested.smtpSession # "open"

----------------------------------------------------------------------------
(* The folder tree (SpecTree). *)

\* a get_folders of either client has returned a folder structure
TreeBuilt ==
    /\ done.op \in {"get_folders", "endpoints_get_folders"}
    /\ done.exc = None

\* the delimiter of the first line of the listing that has one in quotes,
\* "." when no line has
RECURSIVE FirstToken(_, _)
FirstToken(lines, i) ==
    IF i > Len(lines) THEN "."
    ELSE IF lines[i].delim \in Delimiters THEN lines[i].delim
    ELSE FirstToken(lines, i + 1)

\* C23: the delimiter adopted for a listing is the one of its first line
\* that has a quoted ".", "/" or "%"; later lines do not change it; it is
\* "." when no line has one.
C23_FirstDelimiterAdopted ==
    TreeBuilt => done.delimiter = FirstToken(done.lines, 1)

\* the folders the listing names
ListedFolders == {done.lines[i].name : i \in 1 .. Len(done.lines)}

\* The structure returned as a tree: the older client's entries say which
\* folder each is a child of; the list the newer client returns has no
\* children, each of its folders is at the top level.
Tree ==
    IF done.op = "endpoints_get_folders" THEN done.tree
    ELSE [i \in 1 .. Len(done.folders) |->
             [name |-> done.folders[i].name, parent |-> None]]

\* the path of a folder less its last segment under the adopted delimiter
ParentPath(name) ==
    JoinParts(SubSeq(Split(name, done.delimiter), 1,
                     Len(Split(name, done.delimiter)) - 1), done.delimiter)

\* C24: in the folder tree every listed folder appears exactly once, as a
\* child of the folder whose path is its own less the last segment when that
\* folder is listed, and at the top level otherwise.
C24_FolderTreeNesting ==
    TreeBuilt =>
       /\ \A n \in ListedFolders :
             Cardinality({i \in 1 .. Len(Tree) : Tree[i].name = n}) = 1
       /\ \A i \in 1 .. Len(Tree) :
             Tree[i].name \in ListedFolders =>
                Tree[i].parent = IF ParentPath(Tree[i].name) \in ListedFolders
                                   THEN ParentPath(Tree[i].name) ELSE None

\* C25: when LIST succeeded get_folders does not return an empty tree: a
\* listing that yields no folder gives the single entry INBOX of type inbox.
C25_NeverEmptyTree ==
    TreeBuilt =>
       /\ Tree # << >>
       /\ ListedFolders = {} =>
             /\ Len(Tree) = 1
             /\ Tree[1].name = "INBOX"
             /\ Tree[1].type = "inbox"

====
